---------------------------- MODULE Spec2Model ----------------------------
(***************************************************************************)
(* A model of the clause catalogue index (PlaybookLoader) and the semantic *)
(* matcher (SemanticMatcher) of the Sandstone redlining pipeline.          *)
(*                                                                         *)
(* Texts are sequences of words.  The sentence-transformer is an external  *)
(* collaborator: it is modelled by a deterministic bag-of-words embedding  *)
(* into integer vectors, and its failure by an input of the action that    *)
(* calls it.  A similarity 1.0 / (1.0 + dist) is the exact rational        *)
(* [num |-> 1, den |-> 1 + dist].                                          *)
(***************************************************************************)
EXTENDS Integers, Sequences, FiniteSets, TLC

VARIABLES
    clauses,            \* PlaybookLoader.clauses: name -> PlaybookClause
    clause_list,        \* PlaybookLoader.clause_list
    searchable_texts,   \* PlaybookLoader.searchable_texts
    embeddings,         \* PlaybookLoader.embeddings (None or the matrix)
    index,              \* PlaybookLoader.index (None or the faiss index)
    everLoaded,         \* history: some load() has returned normally
    ret,                \* the last completed call of the sequential caller
    loadPc,             \* position of the thread running load()
    callers,            \* the threads running queries, one record each
    doc_text,           \* the text handed to the document parser
    parsed,             \* what the parser's last call on doc_text gave
    cached_results,     \* evals/task.py: the module global _cached_results
    cases,              \* evals: one coroutine of redline_document per case
    trace,              \* history: the pipeline stages the process has run
    mainPc,             \* main(): the statement the process is at
    locals,             \* main(): api_key, args, doc_clauses, matches, redlines
    output_file,        \* main(): what args.output holds
    exit_code           \* main(): the value main() returned

loaderVars == <<clauses, clause_list, searchable_texts, embeddings, index>>
threadVars == <<loadPc, callers>>
parserVars == <<doc_text, parsed>>
pipeVars == <<cached_results, cases, trace, mainPc, locals, output_file,
              exit_code>>
vars == <<clauses, clause_list, searchable_texts, embeddings, index,
          everLoaded, ret, loadPc, callers, doc_text, parsed,
          cached_results, cases, trace, mainPc, locals, output_file,
          exit_code>>

\* Python's None (an absent index or matrix)
None == [kind |-> "None"]

-----------------------------------------------------------------------------
(* Bounds of the model *)

\* longest catalogue handed to load()
MaxEntries == 2
\* largest k / top_k a caller asks for
MaxK == 3
\* longest list of document clauses handed to the matcher
MaxDocs == 2
\* number of dataset cases the evaluation schedules
MaxCases == 3
\* longest document text, in pieces
MaxPieces == 5

-----------------------------------------------------------------------------
(* The catalogue: raw JSON items and validated PlaybookClause objects *)

\* the fields of PlaybookClause that the loader reads; all are required
RequiredFields == {"clause", "clause_definition", "review_instruction"}

Item(n, d) == [clause |-> n, clause_definition |-> d, review_instruction |-> "r"]

ValidItems == {Item("a", "x"), Item("b", "y")}
\* an item that lacks required fields
MalformedItem == [clause |-> "a"]
Items == ValidItems \cup {MalformedItem}

SeqsUpTo(S, n) == UNION {[1..m -> S] : m \in 0..n}

Catalogues == SeqsUpTo(Items, MaxEntries)

\* what open() and json.load() give for playbook_file: the items, or an error
PlaybookFile(c) == [readable |-> TRUE, items |-> c]
Unreadable == [readable |-> FALSE, items |-> <<>>]
PlaybookFiles == {PlaybookFile(c) : c \in Catalogues} \cup {Unreadable}

\* pydantic: PlaybookClause(**item) succeeds iff every required field is there
IsValidItem(item) == RequiredFields \subseteq DOMAIN item

\* the object PlaybookClause(**item): the declared fields of the item
PlaybookClause(item) == [f \in RequiredFields |-> item[f]]

\* two items of the catalogue carry the same name
HasDuplicateNames(data) ==
    \E i, j \in DOMAIN data :
        /\ i < j
        /\ "clause" \in DOMAIN data[i] /\ "clause" \in DOMAIN data[j]
        /\ data[i].clause = data[j].clause

AllValid(data) == \A i \in DOMAIN data : IsValidItem(data[i])

\* [PlaybookClause(**item) for item in data]
ValidatedList(data) == [i \in DOMAIN data |-> PlaybookClause(data[i])]

\* {clause.clause: clause for clause in self.clause_list}: a later entry
\* replaces an earlier one of the same name
ClausesDict(list) ==
    [n \in {list[i].clause : i \in DOMAIN list} |->
        list[CHOOSE i \in DOMAIN list :
                /\ list[i].clause = n
                /\ \A j \in DOMAIN list : list[j].clause = n => j <= i]]

\* f"{clause.clause}. {clause.clause_definition}. {clause.review_instruction}"
CreateSearchableText(clause) ==
    <<clause.clause, ". ", clause.clause_definition, ". ",
      clause.review_instruction>>

SearchableTexts(list) == [i \in DOMAIN list |-> CreateSearchableText(list[i])]

-----------------------------------------------------------------------------
(* The embedding function and the flat L2 index *)

\* the vector of one word
WordVec(w) ==
    CASE w = "b" -> <<3, 0>>
      [] w = "y" -> <<0, 1>>
      [] OTHER   -> <<0, 0>>

Dim == Len(WordVec("b"))

RECURSIVE SumVec(_)
SumVec(text) ==
    IF text = <<>> THEN [c \in 1..Dim |-> 0]
    ELSE LET rest == SumVec(Tail(text))
         IN  [c \in 1..Dim |-> WordVec(Head(text))[c] + rest[c]]

\* self.model.encode of one text: deterministic, fixed dimension
Embed(text) == SumVec(text)

\* self.model.encode(texts): one row per text.  For an empty list the
\* array has no second dimension (shape (0,)).
Encode(texts) ==
    [kind |-> "ndarray", rows |-> [i \in DOMAIN texts |-> Embed(texts[i])]]

RECURSIVE SumSq(_, _, _)
SumSq(u, v, c) ==
    IF c = 0 THEN 0 ELSE (u[c] - v[c]) * (u[c] - v[c]) + SumSq(u, v, c - 1)

\* squared Euclidean distance, the metric of faiss.IndexFlatL2
L2Sqr(u, v) == SumSq(u, v, Dim)

\* the distance faiss reports for a result slot it could not fill (FLT_MAX,
\* here a number above every distance of the model); its label is -1
FltMax == 1000000

\* faiss.IndexFlatL2(dimension) followed by index.add(vectors)
NewIndex(d) == [kind |-> "IndexFlatL2", d |-> d, vectors |-> <<>>]
IndexAdd(idx, matrix) == [idx EXCEPT !.vectors = idx.vectors \o matrix.rows]

\* (mutant) the labels from farthest to nearest
Nearest_Farthest(idx, qv) ==
    LET n == Len(idx.vectors)
        dist(l) == L2Sqr(idx.vectors[l + 1], qv)
        isBefore(a, b) == dist(a) > dist(b) \/ (dist(a) = dist(b) /\ a < b)
    IN  [r \in 1..n |->
            CHOOSE l \in 0..(n - 1) :
                Cardinality({m \in 0..(n - 1) : isBefore(m, l)}) = r - 1]

\* (mutant) an approximate search whose order depends on what the other
\* callers are doing: while some caller holds a result the order is reversed
Nearest_Contended(idx, qv) ==
    LET n == Len(idx.vectors)
        busy == \E t \in DOMAIN callers : callers[t].pc = "done"
        dist(l) == L2Sqr(idx.vectors[l + 1], qv)
        isBefore(a, b) ==
            \/ (IF busy THEN dist(a) > dist(b) ELSE dist(a) < dist(b))
            \/ (dist(a) = dist(b) /\ a < b)
    IN  [r \in 1..n |->
            CHOOSE l \in 0..(n - 1) :
                Cardinality({m \in 0..(n - 1) : isBefore(m, l)}) = r - 1]

\* labels 0..ntotal-1 from nearest to farthest; equal distances keep the
\* lower label first
Nearest(idx, qv) ==
    LET n == Len(idx.vectors)
        dist(l) == L2Sqr(idx.vectors[l + 1], qv)
        isBefore(a, b) == dist(a) < dist(b) \/ (dist(a) = dist(b) /\ a < b)
    IN  [r \in 1..n |->
            CHOOSE l \in 0..(n - 1) :
                Cardinality({m \in 0..(n - 1) : isBefore(m, l)}) = r - 1]

\* (mutant) no check of k: a search for k <= 0 results gives none
IndexSearch_Unchecked(idx, qv, k) ==
    IF idx = None THEN [outcome |-> "AttributeError", D |-> <<>>, I |-> <<>>]
    ELSE LET n == Len(idx.vectors)
             near == Nearest(idx, qv)
         IN  [outcome |-> "ok",
              D |-> [r \in 1..k |-> IF r <= n
                                       THEN L2Sqr(idx.vectors[near[r] + 1], qv)
                                       ELSE FltMax],
              I |-> [r \in 1..k |-> IF r <= n THEN near[r] ELSE -1]]

\* index.search(query, k): the wrapper asserts k > 0; slots beyond ntotal
\* are filled with label -1 and distance FLT_MAX
IndexSearch(idx, qv, k) ==
    IF idx = None THEN [outcome |-> "AttributeError", D |-> <<>>, I |-> <<>>]
    ELSE IF k <= 0 THEN [outcome |-> "AssertionError", D |-> <<>>, I |-> <<>>]
    ELSE LET n == Len(idx.vectors)
             near == Nearest(idx, qv)
         IN  [outcome |-> "ok",
              D |-> [r \in 1..k |-> IF r <= n
                                       THEN L2Sqr(idx.vectors[near[r] + 1], qv)
                                       ELSE FltMax],
              I |-> [r \in 1..k |-> IF r <= n THEN near[r] ELSE -1]]

-----------------------------------------------------------------------------
(* find_similar *)

\* a rational number num / den with den > 0
Rat(n, d) == [num |-> n, den |-> d]
RatLeq(a, b) == a.num * b.den <= b.num * a.den
RatLess(a, b) == a.num * b.den < b.num * a.den

\* (mutant) similarity = 1.0 - float(dist)
Similarity_Linear(dist) == Rat(1 - dist, 1)

\* (mutant) similarity = dist / (1.0 + dist): a farther entry scores higher
Similarity_Inverted(dist) == Rat(dist, 1 + dist)

\* similarity = 1.0 / (1.0 + float(dist))
Similarity(dist) == Rat(1, 1 + dist)

\* Python's list[idx] for idx in -len..len-1 (a negative idx counts from the
\* end); 0 stands for IndexError
PyPosition(list, idx) ==
    IF idx >= 0 /\ idx < Len(list) THEN idx + 1
    ELSE IF idx < 0 /\ -idx <= Len(list) THEN Len(list) + idx + 1
    ELSE 0

Raise(err) == [outcome |-> err, value |-> <<>>]
Return(v) == [outcome |-> "ok", value |-> v]

\* (mutant) the guard is missing
NotLoaded_Unguarded(idx) == FALSE

\* if self.index is None: raise RuntimeError("Playbook not loaded ...")
NotLoaded(idx) == idx = None

\* the loop over zip(indices[0], distances[0]); pos is the place in
\* clause_list of the object that was returned
CollectResults(list, D, I) ==
    IF \E r \in DOMAIN I : PyPosition(list, I[r]) = 0
    THEN Raise("IndexError")
    ELSE Return([r \in DOMAIN I |->
                    [playbook_clause |-> list[PyPosition(list, I[r])],
                     pos |-> PyPosition(list, I[r]),
                     similarity |-> Similarity(D[r])]])

\* (mutant) the query's embedding is stored in self.embeddings
EmbeddingsAfterQuery_Stored(matrix, query_text) == Encode(<<query_text>>)

\* query_embedding = self.model.encode([query_text], ...): the result is a
\* local of find_similar, self.embeddings keeps its value
EmbeddingsAfterQuery(matrix, query_text) == matrix

\* PlaybookLoader.find_similar on a loader whose fields are idx and list
FindSimilarOn(idx, list, query_text, k, embedOk) ==
    IF NotLoaded(idx) THEN Raise("RuntimeError")
    ELSE IF ~embedOk THEN Raise("EmbeddingError")
    ELSE LET s == IndexSearch(idx, Embed(query_text), k)
         IN  IF s.outcome # "ok" THEN Raise(s.outcome)
             ELSE CollectResults(list, s.D, s.I)

-----------------------------------------------------------------------------
(* The matcher *)

DocClause(t, n, h) == [text |-> t, section_number |-> n, section_title |-> h]

DC1 == DocClause(<<"a", "x">>, "1.1", "Definitions")
DC2 == DocClause(<<"b", "x">>, "2.1", "Term")

DocClauses == {DC1, DC2}

QueryTexts == {dc.text : dc \in DocClauses}

\* every k a caller passes: non-positive, within the catalogue, beyond it
KValues == -1..MaxK

\* the field constraints of ClauseMatch: 0 <= similarity_score <= 1, rank >= 1
ClauseMatchValid(similarity, rank) ==
    /\ RatLeq(Rat(0, 1), similarity)
    /\ RatLeq(similarity, Rat(1, 1))
    /\ rank >= 1

\* (mutant) the loop does not count: every match gets rank 1
ClauseMatch_Unranked(doc_clause, found, rank) ==
    [document_clause |-> doc_clause,
     playbook_clause |-> found.playbook_clause,
     similarity_score |-> found.similarity,
     rank |-> 1]

ClauseMatch(doc_clause, found, rank) ==
    [document_clause |-> doc_clause,
     playbook_clause |-> found.playbook_clause,
     similarity_score |-> found.similarity,
     rank |-> rank]

\* (mutant) if similarity <= min_similarity: continue
RECURSIVE MatchesFrom_StrictFloor(_, _, _, _)
MatchesFrom_StrictFloor(doc_clause, similar, from, min_similarity) ==
    IF from > Len(similar) THEN <<>>
    ELSE (IF RatLeq(similar[from].similarity, min_similarity)
          THEN <<>>
          ELSE <<ClauseMatch(doc_clause, similar[from], from)>>)
         \o MatchesFrom_StrictFloor(doc_clause, similar, from + 1, min_similarity)

\* (mutant) if similarity > min_similarity: continue
RECURSIVE MatchesFrom_Ceiling(_, _, _, _)
MatchesFrom_Ceiling(doc_clause, similar, from, min_similarity) ==
    IF from > Len(similar) THEN <<>>
    ELSE (IF RatLess(min_similarity, similar[from].similarity)
          THEN <<>>
          ELSE <<ClauseMatch(doc_clause, similar[from], from)>>)
         \o MatchesFrom_Ceiling(doc_clause, similar, from + 1, min_similarity)

\* the inner loop of match_clauses over enumerate(similar_clauses, start=1):
\* the matches of ranks from..Len(similar), without those under the floor
RECURSIVE MatchesFrom(_, _, _, _)
MatchesFrom(doc_clause, similar, from, min_similarity) ==
    IF from > Len(similar) THEN <<>>
    ELSE (IF RatLess(similar[from].similarity, min_similarity)
          THEN <<>>
          ELSE <<ClauseMatch(doc_clause, similar[from], from)>>)
         \o MatchesFrom(doc_clause, similar, from + 1, min_similarity)

\* the inner loop of match_clauses on the list find_similar returned: the
\* matches it appends, or the ValidationError of a ClauseMatch it builds
ClauseMatches(doc_clause, similar, min_similarity) ==
    IF \E r \in DOMAIN similar :
          /\ ~RatLess(similar[r].similarity, min_similarity)
          /\ ~ClauseMatchValid(similar[r].similarity, r)
    THEN Raise("ValidationError")
    ELSE Return(MatchesFrom(doc_clause, similar, 1, min_similarity))

\* (mutant) an error of find_similar is caught and the clause is skipped
MatchOneClause_Swallowing(idx, list, doc_clause, top_k, min_similarity, embedOk) ==
    LET found == FindSimilarOn(idx, list, doc_clause.text, top_k, embedOk)
    IN  IF found.outcome # "ok" THEN Return(<<>>)
        ELSE ClauseMatches(doc_clause, found.value, min_similarity)

\* one pass of the outer loop of match_clauses: the call of find_similar and
\* the matches it adds to all_matches
MatchOneClause(idx, list, doc_clause, top_k, min_similarity, embedOk) ==
    LET found == FindSimilarOn(idx, list, doc_clause.text, top_k, embedOk)
    IN  IF found.outcome # "ok" THEN found
        ELSE ClauseMatches(doc_clause, found.value, min_similarity)

\* (mutant) all_matches.insert(0, match): a later clause's matches come first
RECURSIVE MatchClausesFrom_Prepending(_, _, _, _, _, _, _, _)
MatchClausesFrom_Prepending(idx, list, doc_clauses, i, acc, top_k, min_similarity, embedOk) ==
    IF i > Len(doc_clauses) THEN Return(acc)
    ELSE LET one == MatchOneClause(idx, list, doc_clauses[i], top_k,
                                   min_similarity, embedOk)
         IN  IF one.outcome # "ok" THEN one
             ELSE MatchClausesFrom_Prepending(idx, list, doc_clauses, i + 1,
                                              one.value \o acc, top_k,
                                              min_similarity, embedOk)

\* SemanticMatcher.match_clauses from clause number i on, all_matches = acc
RECURSIVE MatchClausesFrom(_, _, _, _, _, _, _, _)
MatchClausesFrom(idx, list, doc_clauses, i, acc, top_k, min_similarity, embedOk) ==
    IF i > Len(doc_clauses) THEN Return(acc)
    ELSE LET one == MatchOneClause(idx, list, doc_clauses[i], top_k,
                                   min_similarity, embedOk)
         IN  IF one.outcome # "ok" THEN one
             ELSE MatchClausesFrom(idx, list, doc_clauses, i + 1,
                                   acc \o one.value, top_k, min_similarity,
                                   embedOk)

MatchClausesOn(idx, list, doc_clauses, top_k, min_similarity, embedOk) ==
    MatchClausesFrom(idx, list, doc_clauses, 1, <<>>, top_k, min_similarity,
                     embedOk)

\* the loop of match_single_clause: one match per result, no floor
SingleClauseMatches(doc_clause, similar) ==
    IF \E r \in DOMAIN similar : ~ClauseMatchValid(similar[r].similarity, r)
    THEN Raise("ValidationError")
    ELSE Return([r \in DOMAIN similar |-> ClauseMatch(doc_clause, similar[r], r)])

\* SemanticMatcher.match_single_clause
MatchSingleClauseOn(idx, list, doc_clause, top_k, embedOk) ==
    LET found == FindSimilarOn(idx, list, doc_clause.text, top_k, embedOk)
    IN  IF found.outcome # "ok" THEN found
        ELSE SingleClauseMatches(doc_clause, found.value)

\* (mutant) get_best_matches asks for two candidates per clause
GetBestMatchesOn_TopTwo(idx, list, doc_clauses, min_similarity, embedOk) ==
    MatchClausesOn(idx, list, doc_clauses, 2, min_similarity, embedOk)

\* SemanticMatcher.get_best_matches
GetBestMatchesOn(idx, list, doc_clauses, min_similarity, embedOk) ==
    MatchClausesOn(idx, list, doc_clauses, 1, min_similarity, embedOk)

\* (mutant) a first query is issued before the loop
QueriesIssued_Probing(idx, list, doc_clauses, i, top_k, min_similarity, embedOk) ==
    1

\* how many times match_clauses, from clause number i on, calls find_similar:
\* once per pass of the loop, up to the pass that raises
RECURSIVE QueriesIssued(_, _, _, _, _, _, _)
QueriesIssued(idx, list, doc_clauses, i, top_k, min_similarity, embedOk) ==
    IF i > Len(doc_clauses) THEN 0
    ELSE IF MatchOneClause(idx, list, doc_clauses[i], top_k, min_similarity,
                           embedOk).outcome # "ok"
    THEN 1
    ELSE 1 + QueriesIssued(idx, list, doc_clauses, i + 1, top_k,
                           min_similarity, embedOk)

\* the lists of document clauses handed to the matcher
DocLists == SeqsUpTo(DocClauses, MaxDocs)

\* min_similarity: 0.0 (default of match_clauses), 0.5, 0.9
MinSimilarities == {Rat(0, 1), Rat(1, 2), Rat(9, 10)}

-----------------------------------------------------------------------------
(* load, statement by statement, on the loader's fields as a record *)

LoaderState ==
    [clauses |-> clauses, clause_list |-> clause_list,
     searchable_texts |-> searchable_texts, embeddings |-> embeddings,
     index |-> index]

\* PlaybookLoader.__init__
NewLoader ==
    [clauses |-> ClausesDict(<<>>), clause_list |-> <<>>,
     searchable_texts |-> <<>>, embeddings |-> None, index |-> None]

Install(S) ==
    /\ clauses' = S.clauses
    /\ clause_list' = S.clause_list
    /\ searchable_texts' = S.searchable_texts
    /\ embeddings' = S.embeddings
    /\ index' = S.index

Step(err, S) == [outcome |-> err, state |-> S]

\* (mutant) the entries are appended to self.clause_list one by one, so the
\* entries before a malformed item replace the old list
ListAfterValidation_Appending(old, data) ==
    LET bad == {i \in DOMAIN data : ~IsValidItem(data[i])}
        n == IF bad = {} THEN Len(data)
             ELSE (CHOOSE i \in bad : \A j \in bad : i <= j) - 1
    IN  [i \in 1..n |-> PlaybookClause(data[i])]

\* self.clause_list = [PlaybookClause(**item) for item in data]: the list is
\* built before it is assigned, so a ValidationError leaves the old list
ListAfterValidation(old, data) ==
    IF AllValid(data) THEN ValidatedList(data) ELSE old

\* open, json.load, and the assignments of clause_list, clauses and
\* searchable_texts
LoadParse(S, file) ==
    IF ~file.readable THEN Step("FileError", S)
    ELSE IF ~AllValid(file.items)
    THEN Step("ValidationError",
              [S EXCEPT !.clause_list = ListAfterValidation(@, file.items)])
    ELSE LET list == ListAfterValidation(S.clause_list, file.items)
         IN  Step("ok", [S EXCEPT !.clause_list = list,
                                  !.clauses = ClausesDict(list),
                                  !.searchable_texts = SearchableTexts(list)])

\* self.embeddings = self.model.encode(self.searchable_texts, ...)
LoadEncode(S, embedOk) ==
    IF ~embedOk THEN Step("EmbeddingError", S)
    ELSE Step("ok", [S EXCEPT !.embeddings = Encode(S.searchable_texts)])

\* (mutant) an index that is there is kept and the vectors are added to it
LoadNewIndex_Reusing(S) ==
    IF S.embeddings.rows = <<>> THEN Step("IndexError", S)
    ELSE IF S.index # None THEN Step("ok", S)
    ELSE Step("ok", [S EXCEPT !.index = NewIndex(Len(S.embeddings.rows[1]))])

\* dimension = self.embeddings.shape[1]; self.index = faiss.IndexFlatL2(..)
LoadNewIndex(S) ==
    IF S.embeddings.rows = <<>> THEN Step("IndexError", S)
    ELSE Step("ok", [S EXCEPT !.index = NewIndex(Len(S.embeddings.rows[1]))])

\* PlaybookLoader.get_clause: self.clauses.get(clause_name)
GetClause(clause_name) ==
    IF clause_name \in DOMAIN clauses THEN clauses[clause_name] ELSE None

\* PlaybookLoader.get_all_clause_names: the keys of self.clauses
GetAllClauseNames == DOMAIN clauses

\* PlaybookLoader.num_clauses: len(self.clause_list)
NumClauses == Len(clause_list)

\* self.index.add(self.embeddings.astype('float32'))
LoadAdd(S) == Step("ok", [S EXCEPT !.index = IndexAdd(@, S.embeddings)])

\* PlaybookLoader.load, run from its first statement to its return or raise
LoadOn(S, file, embedOk) ==
    LET p == LoadParse(S, file)
        e == LoadEncode(p.state, embedOk)
        n == LoadNewIndex(e.state)
    IN  IF p.outcome # "ok" THEN p
        ELSE IF e.outcome # "ok" THEN e
        ELSE IF n.outcome # "ok" THEN n
        ELSE LoadAdd(n.state)

-----------------------------------------------------------------------------
(* The sequential caller: every call runs to its end before the next *)

NoArgs == [none |-> TRUE]
NoCall == [op |-> "none", args |-> NoArgs, outcome |-> "ok", value |-> <<>>]

Called(op, args, r) ==
    [op |-> op, args |-> args, outcome |-> r.outcome, value |-> r.value]

NoCallers == [t \in {} |-> NoCall]

\* no parse() has run on doc_text
NotParsed == [outcome |-> "none", value |-> <<>>]

\* main() before its first statement
NoLocals ==
    [api_key |-> None, document |-> None, playbook |-> None, evaluate |-> FALSE,
     doc_clauses |-> None, matches |-> None, redlines |-> None]

\* neither the evaluation task nor main() has started
NoPipeline ==
    /\ cached_results = None
    /\ cases = <<>>
    /\ trace = <<>>
    /\ mainPc = "none"
    /\ locals = NoLocals
    /\ output_file = None
    /\ exit_code = None

Init ==
    /\ clauses = NewLoader.clauses
    /\ clause_list = NewLoader.clause_list
    /\ searchable_texts = NewLoader.searchable_texts
    /\ embeddings = NewLoader.embeddings
    /\ index = NewLoader.index
    /\ everLoaded = FALSE
    /\ ret = NoCall
    /\ loadPc = "idle"
    /\ callers = NoCallers
    /\ doc_text = <<>>
    /\ parsed = NotParsed
    /\ NoPipeline

\* loader.load(playbook_file)
Load(file, embedOk) ==
    LET r == LoadOn(LoaderState, file, embedOk)
    IN  /\ Install(r.state)
        /\ everLoaded' = (everLoaded \/ r.outcome = "ok")
        /\ ret' = Called("load",
                         [duplicate_names |-> HasDuplicateNames(file.items)],
                         Raise(r.outcome))
        /\ UNCHANGED <<threadVars, parserVars, pipeVars>>

\* loader.find_similar(query_text, k)
FindSimilar(query_text, k, embedOk) ==
    /\ ret' = Called("find_similar", [query_text |-> query_text, k |-> k],
                     FindSimilarOn(index, clause_list, query_text, k, embedOk))
    /\ embeddings' = IF NotLoaded(index) \/ ~embedOk THEN embeddings
                     ELSE EmbeddingsAfterQuery(embeddings, query_text)
    /\ UNCHANGED <<clauses, clause_list, searchable_texts, index, everLoaded,
                   threadVars, parserVars, pipeVars>>

Next ==
    \/ \E file \in PlaybookFiles, embedOk \in BOOLEAN : Load(file, embedOk)
    \/ \E q \in QueryTexts, k \in KValues, embedOk \in BOOLEAN :
          FindSimilar(q, k, embedOk)

Spec == Init /\ [][Next]_vars

-----------------------------------------------------------------------------
(* The matcher's sequential caller *)

\* the catalogues that the matcher's caller and the threads load
ThreadFiles ==
    {PlaybookFile(<<Item("a", "x"), Item("b", "y")>>),
     PlaybookFile(<<Item("b", "y")>>),
     PlaybookFile(<<Item("a", "x"), MalformedItem>>)}

\* a completed matcher call, with the number of find_similar calls it made
CalledMatcher(op, args, r, n) ==
    [op |-> op, args |-> args, outcome |-> r.outcome, value |-> r.value,
     queries |-> n]

\* matcher.match_clauses(doc_clauses, top_k, min_similarity)
MatchClauses(doc_clauses, top_k, min_similarity, embedOk) ==
    /\ ret' = CalledMatcher("match_clauses",
                   [doc_clauses |-> doc_clauses, top_k |-> top_k,
                    min_similarity |-> min_similarity],
                   MatchClausesOn(index, clause_list, doc_clauses, top_k,
                                  min_similarity, embedOk),
                   QueriesIssued(index, clause_list, doc_clauses, 1, top_k,
                                 min_similarity, embedOk))
    /\ UNCHANGED <<loaderVars, everLoaded, threadVars, parserVars, pipeVars>>

\* matcher.match_single_clause(doc_clause, top_k)
MatchSingleClause(doc_clause, top_k, embedOk) ==
    /\ ret' = CalledMatcher("match_single_clause",
                   [doc_clause |-> doc_clause, top_k |-> top_k],
                   MatchSingleClauseOn(index, clause_list, doc_clause, top_k,
                                       embedOk),
                   1)
    /\ UNCHANGED <<loaderVars, everLoaded, threadVars, parserVars, pipeVars>>

\* matcher.get_best_matches(doc_clauses, min_similarity)
GetBestMatches(doc_clauses, min_similarity, embedOk) ==
    /\ ret' = CalledMatcher("get_best_matches",
                   [doc_clauses |-> doc_clauses,
                    min_similarity |-> min_similarity],
                   GetBestMatchesOn(index, clause_list, doc_clauses,
                                    min_similarity, embedOk),
                   QueriesIssued(index, clause_list, doc_clauses, 1, 1,
                                 min_similarity, embedOk))
    /\ UNCHANGED <<loaderVars, everLoaded, threadVars, parserVars, pipeVars>>

MatchNext ==
    \/ \E file \in ThreadFiles : Load(file, TRUE)
    \/ \E d \in DocLists, k \in KValues, m \in MinSimilarities,
          embedOk \in BOOLEAN : MatchClauses(d, k, m, embedOk)
    \/ \E dc \in DocClauses, k \in KValues, embedOk \in BOOLEAN :
          MatchSingleClause(dc, k, embedOk)
    \/ \E d \in DocLists, m \in MinSimilarities, embedOk \in BOOLEAN :
          GetBestMatches(d, m, embedOk)

MatchSpec == Init /\ [][MatchNext]_vars

-----------------------------------------------------------------------------
(* Properties of load and find_similar under Spec *)

\* the index holds exactly the embeddings of the entries of clause_list, in
\* their order: what a load that returns normally establishes
IndexOfList ==
    /\ index # None
    /\ index.vectors = Encode(SearchableTexts(clause_list)).rows

NumEntries == Len(clause_list)

\* squared L2 distance from a query to the entry at place p of clause_list
EntryDistance(query_text, p) ==
    L2Sqr(Embed(CreateSearchableText(clause_list[p])), Embed(query_text))

IsFind == ret.op = "find_similar"
IsLoad == ret.op = "load"

\* C1: find_similar on a loader on which no load has ever succeeded raises
\* the not-loaded RuntimeError and returns nothing; a find_similar with
\* k >= 1 that follows a load which returned normally succeeds (unless the
\* embedding function itself fails).
C1_NotLoadedError ==
    [][/\ (ret'.op = "find_similar" /\ ~everLoaded')
            => (ret'.outcome = "RuntimeError" /\ ret'.value = <<>>)
       /\ (IsLoad /\ ret.outcome = "ok" /\ ret'.op = "find_similar"
             /\ ret'.args.k >= 1 /\ ret'.outcome # "EmbeddingError")
            => ret'.outcome = "ok"]_vars

C1_Witness ==
    IsFind /\ ~everLoaded /\ ret.outcome = "RuntimeError" /\ ret.args.k >= 1

\* C2: a load of a catalogue in which two entries carry the same name fails
\* with a ValidationError.
C2_DuplicateNamesFail ==
    (IsLoad /\ ret.args.duplicate_names) => ret.outcome = "ValidationError"

\* C3: a load that fails with a ValidationError leaves clauses, clause_list,
\* searchable_texts, embeddings and index exactly as they were.
C3_ValidationErrorKeepsState ==
    [][(ret'.op = "load" /\ ret'.outcome = "ValidationError")
          => UNCHANGED loaderVars]_vars

C3_Witness ==
    IsLoad /\ ret.outcome = "ValidationError" /\ IndexOfList /\ NumEntries >= 1

\* C4: after a load in which the embedding function failed, the index (if
\* there is one) is still the index of the entries of clause_list.
C4_NoPartialIndex ==
    (IsLoad /\ ret.outcome = "EmbeddingError") => (index = None \/ IndexOfList)

\* C6: on a loaded index of N entries, find_similar with 1 <= k <= N returns
\* k pairs of k distinct entries, none farther from the query than an entry
\* that was not returned, each with similarity 1 / (1 + its distance), from
\* most to least similar.
C6_NearestK ==
    (IsFind /\ IndexOfList /\ ret.args.k >= 1 /\ ret.args.k <= NumEntries
       /\ ret.outcome # "EmbeddingError")
    => /\ ret.outcome = "ok"
       /\ Len(ret.value) = ret.args.k
       /\ \A r, s \in DOMAIN ret.value :
             r # s => ret.value[r].pos # ret.value[s].pos
       /\ \A r \in DOMAIN ret.value :
             LET v == ret.value[r]
                 d == EntryDistance(ret.args.query_text, v.pos)
             IN  /\ v.playbook_clause = clause_list[v.pos]
                 /\ v.similarity.den > 0
                 /\ v.similarity.num * (1 + d) = v.similarity.den
                 /\ d = 0 => v.similarity.num = v.similarity.den
                 /\ \A p \in 1..NumEntries :
                       (\A s \in DOMAIN ret.value : ret.value[s].pos # p)
                          => d <= EntryDistance(ret.args.query_text, p)
       /\ \A r, s \in DOMAIN ret.value :
             r < s => RatLeq(ret.value[s].similarity, ret.value[r].similarity)

C6_Witness ==
    /\ IsFind /\ IndexOfList /\ ret.outcome = "ok"
    /\ NumEntries = 2
    /\ ret.args.k = 1
    /\ EntryDistance(ret.args.query_text, 1) > EntryDistance(ret.args.query_text, 2)
    /\ ret.value[1].pos = 2

\* C7: every similarity that find_similar returns lies in [0, 1], and the
\* similarities do not increase along the returned list.
C7_SimilarityBound ==
    (IsFind /\ ret.outcome = "ok")
    => /\ \A r \in DOMAIN ret.value :
             /\ RatLeq(Rat(0, 1), ret.value[r].similarity)
             /\ RatLeq(ret.value[r].similarity, Rat(1, 1))
       /\ \A r, s \in DOMAIN ret.value :
             r < s => RatLeq(ret.value[s].similarity, ret.value[r].similarity)

C7_Witness ==
    /\ IsFind /\ ret.outcome = "ok" /\ Len(ret.value) >= 2
    /\ ret.value[1].similarity = Rat(1, 1)
    /\ RatLess(ret.value[2].similarity, ret.value[1].similarity)

\* C8: on a loaded index of N entries, find_similar with k > N returns
\* exactly N pairs, one for each entry.
C8_ClampedToEntryCount ==
    (IsFind /\ IndexOfList /\ ret.args.k > NumEntries
       /\ ret.outcome # "EmbeddingError")
    => /\ ret.outcome = "ok"
       /\ Len(ret.value) = NumEntries
       /\ \A r, s \in DOMAIN ret.value :
             r # s => ret.value[r].pos # ret.value[s].pos

\* C9: find_similar with k <= 0 on a loader that has an index raises, returns
\* no list, and changes none of the loader's fields.
C9_NonPositiveKRejected ==
    [][(ret'.op = "find_similar" /\ ret'.args.k <= 0 /\ index # None)
          => /\ ret'.outcome # "ok"
             /\ ret'.value = <<>>
             /\ UNCHANGED loaderVars]_vars

C9_Witness ==
    /\ IsFind /\ IndexOfList /\ ret.args.k <= 0
    /\ ret.outcome = "AssertionError"

\* C28: after a load that returned normally, num_clauses is the number of
\* names that get_all_clause_names returns, and get_clause of the name of
\* every entry of the entry list returns that entry.
C28_LookupMatchesList ==
    (IsLoad /\ ret.outcome = "ok")
    => /\ NumClauses = Cardinality(GetAllClauseNames)
       /\ \A i \in DOMAIN clause_list :
             GetClause(clause_list[i].clause) = clause_list[i]

\* C29: every load that returns normally, whatever was loaded before,
\* leaves an index that holds one vector per entry of the new entry list,
\* the vector at place i being the embedding of the display string of entry
\* i, so that every entry find_similar then returns is an entry of the new
\* list.
C29_IndexOfLatestCatalogue ==
    (IsLoad /\ ret.outcome = "ok")
    => /\ Len(index.vectors) = Len(clause_list)
       /\ \A i \in DOMAIN clause_list :
             index.vectors[i] = Embed(CreateSearchableText(clause_list[i]))
       /\ \A q \in QueryTexts, k \in 1..MaxK :
             LET found == FindSimilarOn(index, clause_list, q, k, TRUE)
             IN  /\ found.outcome = "ok"
                 /\ \A r \in DOMAIN found.value :
                       \E i \in DOMAIN clause_list :
                          found.value[r].playbook_clause = clause_list[i]

\* a load of the one-entry catalogue has returned
C29_Witness ==
    /\ IsLoad /\ ret.outcome = "ok"
    /\ NumEntries = 1 /\ clause_list[1].clause = "b"
    /\ Len(index.vectors) = 1

-----------------------------------------------------------------------------
(* Threads: a call is a sequence of steps, one for each place where it      *)
(* reads or writes the loader's fields.  The embedding function does not    *)
(* fail here; its failure is an input of Load and FindSimilar above.        *)

\* the calls the threads make
ThreadCalls ==
    {[op |-> "find_similar", args |-> [query_text |-> q, k |-> k]] :
        q \in QueryTexts, k \in {1, 2}}
    \cup {[op |-> "match_clauses",
           args |-> [doc_clauses |-> d, top_k |-> 2,
                     min_similarity |-> Rat(2, 5)]] :
             d \in {<<>>, <<DC1, DC2>>}}
    \cup {[op |-> "match_single_clause",
           args |-> [doc_clause |-> DC2, top_k |-> 2]],
          [op |-> "get_best_matches",
           args |-> [doc_clauses |-> <<DC2, DC1>>,
                     min_similarity |-> Rat(0, 1)]]}

\* a thread that is in no call
Idle ==
    [pc |-> "idle", op |-> "none", args |-> NoArgs, i |-> 0, acc |-> <<>>,
     D |-> <<>>, I |-> <<>>, seenIndex |-> None, seenList |-> <<>>,
     out |-> Raise("none")]

\* how many times the call runs find_similar
NumQueries(c) ==
    IF c.op \in {"find_similar", "match_single_clause"} THEN 1
    ELSE Len(c.args.doc_clauses)

\* the document clause of the pass c.i of the loop of a matcher call
CurrentClause(c) ==
    IF c.op = "match_single_clause" THEN c.args.doc_clause
    ELSE c.args.doc_clauses[c.i]

\* the arguments of the find_similar that the call is running
CurrentQuery(c) ==
    IF c.op = "find_similar" THEN c.args.query_text ELSE CurrentClause(c).text

CurrentK(c) ==
    CASE c.op = "find_similar" -> c.args.k
      [] c.op = "get_best_matches" -> 1
      [] OTHER -> c.args.top_k

\* the call returns r or raises it
Done(c, r) == [c EXCEPT !.pc = "done", !.out = r]

\* the caller enters the call; a matcher call on no clauses returns at once
Call(t, call) ==
    /\ callers[t].pc = "idle"
    /\ LET c == [Idle EXCEPT !.op = call.op, !.args = call.args, !.i = 1]
       IN  callers' = [callers EXCEPT ![t] =
                          IF NumQueries(c) = 0 THEN Done(c, Return(<<>>))
                          ELSE [c EXCEPT !.pc = "begin"]]
    /\ UNCHANGED <<loaderVars, everLoaded, ret, loadPc, parserVars, pipeVars>>

\* find_similar: the guard on self.index and the encoding of the query
FsBegin(t) ==
    LET c == callers[t]
    IN  /\ c.pc = "begin"
        /\ IF NotLoaded(index)
           THEN /\ callers' = [callers EXCEPT ![t] = Done(c, Raise("RuntimeError"))]
                /\ UNCHANGED embeddings
           ELSE /\ callers' = [callers EXCEPT ![t].pc = "search"]
                /\ embeddings' = EmbeddingsAfterQuery(embeddings, CurrentQuery(c))
        /\ UNCHANGED <<clauses, clause_list, searchable_texts, index,
                       everLoaded, ret, loadPc, parserVars, pipeVars>>

\* find_similar: self.index.search(query_embedding, k)
FsSearch(t) ==
    LET c == callers[t]
        s == IndexSearch(index, Embed(CurrentQuery(c)), CurrentK(c))
    IN  /\ c.pc = "search"
        /\ callers' = [callers EXCEPT ![t] =
                          IF s.outcome # "ok" THEN Done(c, Raise(s.outcome))
                          ELSE [c EXCEPT !.pc = "collect", !.D = s.D,
                                         !.I = s.I, !.seenIndex = index]]
        /\ UNCHANGED <<loaderVars, everLoaded, ret, loadPc, parserVars, pipeVars>>

\* the caller's state after find_similar returned `found` to it: the call
\* is over, or the loop of match_clauses goes to its next clause
AfterFind(c, found) ==
    IF found.outcome # "ok" THEN Done(c, found)
    ELSE IF c.op = "find_similar" THEN Done(c, found)
    ELSE IF c.op = "match_single_clause"
    THEN Done(c, SingleClauseMatches(CurrentClause(c), found.value))
    ELSE LET min == c.args.min_similarity
             one == ClauseMatches(CurrentClause(c), found.value, min)
         IN  IF one.outcome # "ok" THEN Done(c, one)
             ELSE IF c.i = NumQueries(c)
             THEN Done(c, Return(c.acc \o one.value))
             ELSE [c EXCEPT !.pc = "begin", !.i = c.i + 1,
                            !.acc = c.acc \o one.value]

\* find_similar: the loop that reads self.clause_list, and its return
FsCollect(t) ==
    LET c == callers[t]
        found == CollectResults(clause_list, c.D, c.I)
    IN  /\ c.pc = "collect"
        /\ callers' = [callers EXCEPT ![t] =
                          AfterFind([c EXCEPT !.seenList = clause_list], found)]
        /\ UNCHANGED <<loaderVars, everLoaded, ret, loadPc, parserVars, pipeVars>>

\* the caller takes the result
Finish(t) ==
    /\ callers[t].pc = "done"
    /\ callers' = [callers EXCEPT ![t] = Idle]
    /\ UNCHANGED <<loaderVars, everLoaded, ret, loadPc, parserVars, pipeVars>>

InitThreads(T) ==
    /\ clauses = NewLoader.clauses
    /\ clause_list = NewLoader.clause_list
    /\ searchable_texts = NewLoader.searchable_texts
    /\ embeddings = NewLoader.embeddings
    /\ index = NewLoader.index
    /\ everLoaded = FALSE
    /\ ret = NoCall
    /\ loadPc = "idle"
    /\ callers = [t \in T |-> Idle]
    /\ doc_text = <<>>
    /\ parsed = NotParsed
    /\ NoPipeline

-----------------------------------------------------------------------------
(* Readers: several callers query while no load runs *)

Readers == {"c1", "c2"}

\* load, called while no query is running
LoadWhileQuiet(file) ==
    /\ \A t \in DOMAIN callers : callers[t].pc = "idle"
    /\ Load(file, TRUE)

ReadersInit == InitThreads(Readers)

ReadersNext ==
    \/ \E file \in ThreadFiles : LoadWhileQuiet(file)
    \/ \E t \in DOMAIN callers, call \in ThreadCalls : Call(t, call)
    \/ \E t \in DOMAIN callers : FsBegin(t)
    \/ \E t \in DOMAIN callers : FsSearch(t)
    \/ \E t \in DOMAIN callers : FsCollect(t)
    \/ \E t \in DOMAIN callers : Finish(t)

ReadersSpec == ReadersInit /\ [][ReadersNext]_vars

-----------------------------------------------------------------------------
(* Reload: one thread runs load statement by statement while another       *)
(* queries                                                                 *)

\* load: open, json.load, validation, clause_list, clauses, searchable_texts
LoadBegin(file) ==
    LET r == LoadParse(LoaderState, file)
    IN  /\ loadPc = "idle"
        /\ Install(r.state)
        /\ IF r.outcome = "ok"
           THEN loadPc' = "encode" /\ UNCHANGED ret
           ELSE /\ loadPc' = "idle"
                /\ ret' = Called("load",
                                 [duplicate_names |-> HasDuplicateNames(file.items)],
                                 Raise(r.outcome))
        /\ UNCHANGED <<everLoaded, callers, parserVars, pipeVars>>

\* load: self.embeddings = self.model.encode(...)
LoadEncodeStep ==
    /\ loadPc = "encode"
    /\ Install(LoadEncode(LoaderState, TRUE).state)
    /\ loadPc' = "newindex"
    /\ UNCHANGED <<everLoaded, ret, callers, parserVars, pipeVars>>

\* load: self.index = faiss.IndexFlatL2(dimension)
LoadNewIndexStep ==
    LET r == LoadNewIndex(LoaderState)
    IN  /\ loadPc = "newindex"
        /\ Install(r.state)
        /\ IF r.outcome = "ok"
           THEN loadPc' = "add" /\ UNCHANGED ret
           ELSE /\ loadPc' = "idle"
                /\ ret' = Called("load", [duplicate_names |-> FALSE],
                                 Raise(r.outcome))
        /\ UNCHANGED <<everLoaded, callers, parserVars, pipeVars>>

\* load: self.index.add(...), and the return
LoadAddStep ==
    /\ loadPc = "add"
    /\ Install(LoadAdd(LoaderState).state)
    /\ loadPc' = "idle"
    /\ everLoaded' = TRUE
    /\ ret' = Called("load", [duplicate_names |-> FALSE], Raise("ok"))
    /\ UNCHANGED <<callers, parserVars, pipeVars>>

ReloadInit == InitThreads({"c1"})

ReloadNext ==
    \/ \E file \in ThreadFiles : LoadBegin(file)
    \/ LoadEncodeStep
    \/ LoadNewIndexStep
    \/ LoadAddStep
    \/ \E t \in DOMAIN callers, call \in ThreadCalls : Call(t, call)
    \/ \E t \in DOMAIN callers : FsBegin(t)
    \/ \E t \in DOMAIN callers : FsSearch(t)
    \/ \E t \in DOMAIN callers : FsCollect(t)
    \/ \E t \in DOMAIN callers : Finish(t)

ReloadSpec == ReloadInit /\ [][ReloadNext]_vars

-----------------------------------------------------------------------------
(* Properties of the threads *)

\* the index a query searched is the index of the entry list it read
SawOneCatalogue(c) ==
    /\ c.seenIndex # None
    /\ c.seenIndex.vectors = Encode(SearchableTexts(c.seenList)).rows

\* C5: a find_similar that runs while load rebuilds the index sees the old
\* catalogue or the new one: the index it searched and the entry list it
\* read belong to the same catalogue (or it found no index at all).
C5_AtomicRebuild ==
    \A t \in DOMAIN callers :
        LET c == callers[t]
        IN  (c.pc = "done" /\ c.op = "find_similar")
            => \/ c.out.outcome = "RuntimeError"
               \/ c.out.outcome = "ok" /\ SawOneCatalogue(c)

\* what the call of caller record c returns when it runs alone on a loader
\* whose fields are idx and list
AloneResultOn(idx, list, c) ==
    CASE c.op = "find_similar" ->
            FindSimilarOn(idx, list, c.args.query_text, c.args.k, TRUE)
      [] c.op = "match_clauses" ->
            MatchClausesOn(idx, list, c.args.doc_clauses, c.args.top_k,
                           c.args.min_similarity, TRUE)
      [] c.op = "match_single_clause" ->
            MatchSingleClauseOn(idx, list, c.args.doc_clause, c.args.top_k, TRUE)
      [] c.op = "get_best_matches" ->
            GetBestMatchesOn(idx, list, c.args.doc_clauses,
                             c.args.min_similarity, TRUE)

\* C10: while no load runs, no step of a find_similar, match_clauses,
\* match_single_clause or get_best_matches call changes a field of the
\* loader, however the calls of several callers interleave, and every call
\* returns what it returns when it runs alone.
C10_QueriesReadOnly ==
    [][/\ (\E t \in DOMAIN callers : callers'[t].pc # callers[t].pc)
            => UNCHANGED loaderVars
       /\ \A t \in DOMAIN callers :
            callers'[t].pc = "done"
               => callers'[t].out =
                     AloneResultOn(index', clause_list', callers'[t])]_vars

C10_Witness ==
    /\ IndexOfList
    /\ callers["c1"].pc = "done"
    /\ callers["c1"].op = "match_clauses"
    /\ Len(callers["c1"].out.value) >= 2
    /\ callers["c2"].pc = "collect"
    /\ callers["c2"].op = "get_best_matches"
    /\ callers["c2"].i = 2

\* C11: while the catalogue stays the same, two find_similar calls with the
\* same query and the same k give the same outcome, the same entries in the
\* same order and the same scores, whatever other queries ran between the
\* two (one caller keeps its result while the other runs any other calls
\* and then repeats the query).
C11_RepeatedQueryIdentical ==
    \A t, u \in DOMAIN callers :
        (/\ callers[t].pc = "done" /\ callers[u].pc = "done"
         /\ callers[t].op = "find_similar" /\ callers[u].op = "find_similar"
         /\ callers[t].args = callers[u].args)
        => callers[t].out = callers[u].out

C11_Witness ==
    /\ IndexOfList /\ NumEntries = 2
    /\ callers["c1"].pc = "done" /\ callers["c2"].pc = "done"
    /\ callers["c1"].op = "find_similar" /\ callers["c2"].op = "find_similar"
    /\ callers["c1"].args = callers["c2"].args
    /\ callers["c1"].out.outcome = "ok"
    /\ Len(callers["c2"].out.value) = 2
    /\ callers["c2"].out.value[1].pos = 2
    /\ RatLess(callers["c2"].out.value[2].similarity,
               callers["c2"].out.value[1].similarity)

-----------------------------------------------------------------------------
(* Properties of the matcher under MatchSpec *)

IsMatch == ret.op \in {"match_clauses", "get_best_matches"}

\* the top_k of the completed match_clauses / get_best_matches call
RetTopK == IF ret.op = "get_best_matches" THEN 1 ELSE ret.args.top_k

\* for each match of `out` from number j on, the place in `docs` of the
\* clause it belongs to: a match stays with the clause of the match before
\* it when it is a match of that clause with a higher rank, and goes to the
\* next place of its clause otherwise (0 when there is none)
RECURSIVE PlaceFrom(_, _, _, _)
PlaceFrom(out, docs, j, prev) ==
    IF j > Len(out) THEN <<>>
    ELSE LET stay == /\ j > 1 /\ prev > 0
                     /\ out[j].document_clause = docs[prev]
                     /\ out[j].rank > out[j - 1].rank
             later == {c \in DOMAIN docs :
                          c > prev /\ docs[c] = out[j].document_clause}
             c == IF j > 1 /\ prev = 0 THEN 0
                  ELSE IF stay THEN prev
                  ELSE IF later = {} THEN 0
                  ELSE CHOOSE x \in later : \A y \in later : x <= y
         IN  <<c>> \o PlaceFrom(out, docs, j + 1, c)

Placement(out, docs) == PlaceFrom(out, docs, 1, 0)

\* what find_similar returns for the clause at place c of the call's list
CandidatesOf(c) ==
    FindSimilarOn(index, clause_list, ret.args.doc_clauses[c].text, RetTopK,
                  TRUE).value

\* C12: the matches of a match_clauses / get_best_matches call come in the
\* order of the document clauses handed in, and the matches of one clause
\* come with strictly ascending ranks.
C12_InputOrderThenRank ==
    (IsMatch /\ ret.outcome = "ok")
    => LET out == ret.value
           p == Placement(out, ret.args.doc_clauses)
       IN  /\ \A j \in DOMAIN out : p[j] > 0
           /\ \A i, j \in DOMAIN out :
                 i < j => /\ p[i] <= p[j]
                          /\ p[i] = p[j] => out[i].rank < out[j].rank

C12_Witness ==
    /\ ret.op = "match_clauses" /\ ret.outcome = "ok"
    /\ ret.args.doc_clauses = <<DC2, DC1>>
    /\ Len(ret.value) = 4
    /\ ret.value[1].document_clause = DC2 /\ ret.value[1].rank = 1
    /\ ret.value[2].document_clause = DC2 /\ ret.value[2].rank = 2
    /\ ret.value[3].document_clause = DC1 /\ ret.value[3].rank = 1
    /\ ret.value[4].document_clause = DC1 /\ ret.value[4].rank = 2

\* C13: in the result of match_clauses(doc_clauses, top_k = k,
\* min_similarity = 0.0) that returned, the matches of every document clause
\* carry the ranks 1, 2, .., k, each once.
C13_RankContiguity ==
    (ret.op = "match_clauses" /\ ret.outcome = "ok"
       /\ ret.args.min_similarity = Rat(0, 1))
    => LET out == ret.value
           docs == ret.args.doc_clauses
           p == Placement(out, docs)
       IN  /\ \A j \in DOMAIN out : p[j] > 0
           /\ \A c \in DOMAIN docs :
                 LET mine == {j \in DOMAIN out : p[j] = c}
                 IN  /\ Cardinality(mine) = ret.args.top_k
                     /\ {out[j].rank : j \in mine} = 1..ret.args.top_k

C13_Witness ==
    /\ ret.op = "match_clauses" /\ ret.outcome = "ok"
    /\ ret.args.min_similarity = Rat(0, 1)
    /\ ret.args.top_k = 2 /\ NumEntries = 2 /\ IndexOfList
    /\ Len(ret.args.doc_clauses) = 2
    /\ Len(ret.value) = 4

\* C14: match_clauses emits a candidate that find_similar returned for a
\* clause if and only if its similarity is >= min_similarity: every match
\* is a candidate of its clause with its rank and score, the score is not
\* under the floor, and every candidate not under the floor is a match.
C14_FloorExact ==
    (IsMatch /\ ret.outcome = "ok")
    => LET out == ret.value
           docs == ret.args.doc_clauses
           min == ret.args.min_similarity
           p == Placement(out, docs)
       IN  /\ \A j \in DOMAIN out :
                 /\ p[j] > 0
                 /\ RatLeq(min, out[j].similarity_score)
                 /\ out[j].rank \in DOMAIN CandidatesOf(p[j])
                 /\ LET cand == CandidatesOf(p[j])[out[j].rank]
                    IN  /\ out[j].playbook_clause = cand.playbook_clause
                        /\ out[j].similarity_score = cand.similarity
           /\ \A c \in DOMAIN docs :
                 \A r \in DOMAIN CandidatesOf(c) :
                    RatLeq(min, CandidatesOf(c)[r].similarity)
                    <=> \E j \in DOMAIN out : p[j] = c /\ out[j].rank = r

\* a candidate exactly on the floor is kept, one under it is dropped, and a
\* clause with no candidate on or over the floor has no match
C14_Witness ==
    /\ ret.op = "match_clauses" /\ ret.outcome = "ok" /\ IndexOfList
    /\ ret.args.doc_clauses = <<DC2, DC1>>
    /\ ret.args.min_similarity = Rat(1, 2)
    /\ ret.args.top_k = 2
    /\ NumEntries = 1
    /\ Len(ret.value) = 1
    /\ ret.value[1].document_clause = DC2
    /\ ret.value[1].similarity_score = Rat(1, 2)

\* a is b with some of its elements left out
RECURSIVE IsSubList(_, _)
IsSubList(a, b) ==
    IF a = <<>> THEN TRUE
    ELSE IF b = <<>> THEN FALSE
    ELSE IF Head(a) = Head(b) THEN IsSubList(Tail(a), Tail(b))
    ELSE IsSubList(a, Tail(b))

\* C15: for the same document clauses, top_k and catalogue, match_clauses
\* with a floor m2 returns a sub-list of what it returns with any floor
\* m1 <= m2, so it never returns more matches.
C15_ThresholdMonotone ==
    (ret.op = "match_clauses" /\ ret.outcome = "ok")
    => \A m1 \in MinSimilarities :
          RatLeq(m1, ret.args.min_similarity)
          => LET lower == MatchClausesOn(index, clause_list,
                                         ret.args.doc_clauses, ret.args.top_k,
                                         m1, TRUE)
             IN  /\ lower.outcome = "ok"
                 /\ Len(ret.value) <= Len(lower.value)
                 /\ IsSubList(ret.value, lower.value)

C15_Witness ==
    /\ ret.op = "match_clauses" /\ ret.outcome = "ok" /\ IndexOfList
    /\ ret.args.min_similarity = Rat(9, 10)
    /\ ret.args.top_k = 2
    /\ Len(ret.args.doc_clauses) = 2
    /\ Len(ret.value) = 1
    /\ Len(MatchClausesOn(index, clause_list, ret.args.doc_clauses, 2,
                          Rat(1, 2), TRUE).value) = 2
    /\ Len(MatchClausesOn(index, clause_list, ret.args.doc_clauses, 2,
                          Rat(0, 1), TRUE).value) = 4

\* the similarity of the catalogue entry nearest to the text
NearestSimilarity(text) ==
    Similarity(CHOOSE d \in {EntryDistance(text, e) : e \in 1..NumEntries} :
                  \A e \in 1..NumEntries : d <= EntryDistance(text, e))

\* C16: get_best_matches(doc_clauses, min_similarity) returns what
\* match_clauses(doc_clauses, top_k = 1, min_similarity) returns; on a
\* loaded index that is one match of rank 1 for each document clause whose
\* nearest entry has similarity >= min_similarity, in the order of the
\* clauses, and nothing for the other clauses.
C16_BestMatchesIsTopOne ==
    (ret.op = "get_best_matches" /\ ret.outcome # "EmbeddingError")
    => LET out == ret.value
           docs == ret.args.doc_clauses
           min == ret.args.min_similarity
           same == MatchClausesOn(index, clause_list, docs, 1, min, TRUE)
           p == Placement(out, docs)
       IN  /\ ret.outcome = same.outcome
           /\ out = same.value
           /\ (IndexOfList /\ NumEntries >= 1)
                 => /\ ret.outcome = "ok"
                    /\ \A i, j \in DOMAIN out : i < j => 0 < p[i] /\ p[i] < p[j]
                    /\ \A j \in DOMAIN out : p[j] > 0 /\ out[j].rank = 1
                    /\ \A c \in DOMAIN docs :
                          RatLeq(min, NearestSimilarity(docs[c].text))
                          <=> \E j \in DOMAIN out :
                                 /\ p[j] = c
                                 /\ out[j].similarity_score =
                                       NearestSimilarity(docs[c].text)

C16_Witness ==
    /\ ret.op = "get_best_matches" /\ ret.outcome = "ok" /\ IndexOfList
    /\ NumEntries = 2
    /\ ret.args.doc_clauses = <<DC2, DC1>>
    /\ ret.args.min_similarity = Rat(9, 10)
    /\ Len(ret.value) = 1
    /\ ret.value[1].document_clause = DC1

\* C17: match_clauses, get_best_matches and match_single_clause called with
\* at least one document clause on a matcher whose loader has no index
\* raise the loader's not-loaded RuntimeError and return no list.
C17_NotLoadedPropagates ==
    (/\ index = None
     /\ \/ IsMatch /\ ret.args.doc_clauses # <<>>
        \/ ret.op = "match_single_clause")
    => ret.outcome = "RuntimeError" /\ ret.value = <<>>

C17_Witness ==
    /\ index = None
    /\ ret.op = "match_clauses"
    /\ Len(ret.args.doc_clauses) = 2
    /\ ret.outcome = "RuntimeError"
    /\ ret.queries = 1

\* C18: match_clauses and get_best_matches called with an empty list of
\* document clauses return an empty list, raise nothing and make no call
\* of find_similar, whether the loader has an index or not.
C18_EmptyInputEmptyResult ==
    (IsMatch /\ ret.args.doc_clauses = <<>>)
    => ret.outcome = "ok" /\ ret.value = <<>> /\ ret.queries = 0

C18_Witness ==
    /\ index = None
    /\ ret.op = "get_best_matches"
    /\ ret.args.doc_clauses = <<>>
    /\ ret.outcome = "ok"

\* C27: whatever min_similarity and top_k, the ranks of the matches that
\* match_clauses emits for one document clause are 1, 2, .., m for some m
\* from 0 to top_k: no rank is dropped while a higher one is kept.
C27_RanksFormPrefix ==
    (IsMatch /\ ret.outcome = "ok")
    => LET out == ret.value
           docs == ret.args.doc_clauses
           p == Placement(out, docs)
       IN  /\ \A j \in DOMAIN out : p[j] > 0
           /\ \A c \in DOMAIN docs :
                 LET mine == {j \in DOMAIN out : p[j] = c}
                 IN  /\ Cardinality(mine) <= RetTopK
                     /\ {out[j].rank : j \in mine} = 1..Cardinality(mine)

\* the floor removed rank 2 of a clause and kept its rank 1
C27_Witness ==
    /\ ret.op = "match_clauses" /\ ret.outcome = "ok" /\ IndexOfList
    /\ NumEntries = 2
    /\ ret.args.top_k = 2
    /\ ret.args.min_similarity = Rat(1, 2)
    /\ ret.args.doc_clauses = <<DC1, DC2>>
    /\ Len(ret.value) = 2
    /\ ret.value[1].rank = 1 /\ ret.value[2].rank = 1

-----------------------------------------------------------------------------
(* The document parser.  A text is a sequence of characters. *)

IsDigit(ch) == ch \in {"0", "1", "2", "3", "4", "5", "6", "7", "8", "9"}
\* what \s matches and str.strip() removes
IsSpace(ch) == ch \in {" ", "\n", "\t"}

\* the pieces the texts of the model are made of
Pieces ==
    {<<"1", ".", " ", "T", "\n">>,
     <<"1", ".", "1", " ">>,
     <<"2">>,
     <<"2", ".", " ">>,
     <<" ">>,
     <<"\n">>,
     <<"a", "b", "c", "d", "e", "f", "g", "h", "i">>,
     <<"a", "b", "c", "d", "e", "f", "g", "h", "i", "j">>,
     <<"I", "N", " ", "W", "I", "T", "N", "E", "S", "S">>}

RECURSIVE Concat(_)
Concat(ps) == IF ps = <<>> THEN <<>> ELSE Head(ps) \o Concat(Tail(ps))

Texts == {Concat(ps) : ps \in SeqsUpTo(Pieces, MaxPieces)}

\* the place after the run of digits (of whitespace) that starts at p
DigitRunEnd(text, p) ==
    CHOOSE e \in p..(Len(text) + 1) :
        /\ \A i \in p..(e - 1) : IsDigit(text[i])
        /\ e = Len(text) + 1 \/ ~IsDigit(text[e])

SpaceRunEnd(text, p) ==
    CHOOSE e \in p..(Len(text) + 1) :
        /\ \A i \in p..(e - 1) : IsSpace(text[i])
        /\ e = Len(text) + 1 \/ ~IsSpace(text[e])

StartsWith(text, p, word) ==
    /\ p + Len(word) - 1 <= Len(text)
    /\ \A i \in DOMAIN word : text[p + i - 1] = word[i]

\* str.strip()
Strip(str) ==
    LET solid == {i \in DOMAIN str : ~IsSpace(str[i])}
    IN  IF solid = {} THEN <<>>
        ELSE SubSeq(str, CHOOSE i \in solid : \A j \in solid : i <= j,
                         CHOOSE i \in solid : \A j \in solid : j <= i)

\* re.sub(r'\s+', ' ', str)
RECURSIVE CollapseSpaces(_)
CollapseSpaces(str) ==
    IF str = <<>> THEN <<>>
    ELSE IF IsSpace(str[1])
    THEN <<" ">> \o CollapseSpaces(SubSeq(str, SpaceRunEnd(str, 1), Len(str)))
    ELSE <<str[1]>> \o CollapseSpaces(Tail(str))

\* re.sub(r'\n\s*\n', '\n\n', text) from place p on: a newline and the
\* whitespace after it, up to the last newline of that whitespace, become
\* two newlines
RECURSIVE NormalizeBreaksFrom(_, _)
NormalizeBreaksFrom(text, p) ==
    IF p > Len(text) THEN <<>>
    ELSE LET breaks == {i \in (p + 1)..(SpaceRunEnd(text, p + 1) - 1) :
                           text[i] = "\n"}
         IN  IF text[p] = "\n" /\ breaks # {}
             THEN <<"\n", "\n">>
                  \o NormalizeBreaksFrom(text,
                        (CHOOSE i \in breaks : \A j \in breaks : j <= i) + 1)
             ELSE <<text[p]>> \o NormalizeBreaksFrom(text, p + 1)

\* DocumentParser._strip_rtf on what rtf_to_text gave
StripRtf(text) == Strip(NormalizeBreaksFrom(text, 1))

NoMatch == [found |-> FALSE]

\* a match of r'^(\d+)\.\s+([^\n]+?)(?:\s*\n|$)' (re.MULTILINE) at place p:
\* the greedy \s+ gives whitespace back until a character that is not a
\* newline follows it; the lazy title stops as soon as only whitespace is
\* left on its line, or at the end of the text
TitleMatchAt(text, p) ==
    LET n == Len(text)
        a == DigitRunEnd(text, p)
        w == SpaceRunEnd(text, a + 1)
        starts == {q \in (a + 2)..w : q <= n /\ text[q] # "\n"}
        q == CHOOSE x \in starts : \A y \in starts : y <= x
        eol == CHOOSE e \in q..(n + 1) :
                   /\ \A i \in q..(e - 1) : text[i] # "\n"
                   /\ e = n + 1 \/ text[e] = "\n"
        stops == IF eol = n + 1 THEN {n + 1}
                 ELSE {y \in (q + 1)..eol :
                          \A i \in y..(eol - 1) : IsSpace(text[i])}
        y == CHOOSE x \in stops : \A z \in stops : x <= z
        breaks == {i \in y..(SpaceRunEnd(text, y) - 1) : text[i] = "\n"}
    IN  IF /\ (p = 1 \/ text[p - 1] = "\n")
           /\ a > p /\ a <= n /\ text[a] = "."
           /\ starts # {}
        THEN [found |-> TRUE, num |-> SubSeq(text, p, a - 1),
              title |-> SubSeq(text, q, y - 1),
              end |-> IF breaks = {} THEN y
                      ELSE (CHOOSE i \in breaks : \A j \in breaks : j <= i) + 1]
        ELSE NoMatch

\* re.findall(pattern, text, re.MULTILINE) from place p on
RECURSIVE TitleMatchesFrom(_, _)
TitleMatchesFrom(text, p) ==
    IF p > Len(text) THEN <<>>
    ELSE LET m == TitleMatchAt(text, p)
         IN  IF m.found THEN <<m>> \o TitleMatchesFrom(text, m.end)
             ELSE TitleMatchesFrom(text, p + 1)

\* section_titles.get(num) after the loop section_titles[num] = title.strip()
\* over the matches: the title of the last match with that number, or None
NoTitle == [present |-> FALSE, title |-> <<>>]

SectionTitle(matches, num) ==
    LET same == {i \in DOMAIN matches : matches[i].num = num}
    IN  IF same = {} THEN NoTitle
        ELSE [present |-> TRUE,
              title |-> Strip(matches[CHOOSE i \in same :
                                         \A j \in same : j <= i].title)]

\* DocumentParser._extract_section_titles: the numbers that have a title
ExtractSectionTitles(text) == TitleMatchesFrom(text, 1)

\* the dict that _extract_section_titles returns
SectionTitlesDict(matches) ==
    [num \in {matches[i].num : i \in DOMAIN matches} |->
        SectionTitle(matches, num).title]

\* the lookahead (?=\n\s*\d+\.\d+|\n\s*\d+\.|IN WITNESS|$) at place x ($
\* without re.MULTILINE: the end, or before a last newline)
Terminator(text, x) ==
    LET n == Len(text)
        s == SpaceRunEnd(text, x + 1)
        d == DigitRunEnd(text, s)
    IN  \/ x = n + 1
        \/ x = n /\ text[n] = "\n"
        \/ StartsWith(text, x, <<"I", "N", " ", "W", "I", "T", "N", "E", "S", "S">>)
        \/ /\ x <= n /\ text[x] = "\n"
           /\ d > s /\ d <= n /\ text[d] = "."

\* a match of r'(\d+)\.(\d+)\s+(.*?)(?=...)' (re.DOTALL) at place p
SubsectionMatchAt(text, p) ==
    LET n == Len(text)
        a == DigitRunEnd(text, p)
        b == DigitRunEnd(text, a + 1)
        q == SpaceRunEnd(text, b)
        e == CHOOSE x \in q..(n + 1) :
                 /\ Terminator(text, x)
                 /\ \A y \in q..(x - 1) : ~Terminator(text, y)
    IN  IF /\ a > p /\ a <= n /\ text[a] = "."
           /\ b > a + 1
           /\ q > b
        THEN [found |-> TRUE, main_num |-> SubSeq(text, p, a - 1),
              sub_num |-> SubSeq(text, a + 1, b - 1),
              content |-> SubSeq(text, q, e - 1), body |-> b, end |-> e]
        ELSE NoMatch

\* re.findall(pattern, text, re.DOTALL) from place p on
RECURSIVE SubsectionMatchesFrom(_, _)
SubsectionMatchesFrom(text, p) ==
    IF p > Len(text) THEN <<>>
    ELSE LET m == SubsectionMatchAt(text, p)
         IN  IF m.found THEN <<m>> \o SubsectionMatchesFrom(text, m.end)
             ELSE SubsectionMatchesFrom(text, p + 1)

\* (mutant) the address is the major number alone
SectionNumber_MajorOnly(main_num, sub_num) == main_num

\* section_number = f"{main_num}.{sub_num}"
SectionNumber(main_num, sub_num) == main_num \o <<".">> \o sub_num

\* content.strip() and re.sub(r'\s+', ' ', content)
CleanContent(content) == CollapseSpaces(Strip(content))

\* (mutant) if len(content) <= 10: continue
TooShort_Inclusive(content) == Len(content) <= 10

\* if len(content) < 10: continue
TooShort(content) == Len(content) < 10

\* the loop of _extract_subsections over the matches from number i on
RECURSIVE ClausesFrom(_, _, _)
ClausesFrom(matches, section_titles, i) ==
    IF i > Len(matches) THEN <<>>
    ELSE LET m == matches[i]
             content == CleanContent(m.content)
         IN  (IF TooShort(content) THEN <<>>
              ELSE <<DocClause(content,
                               SectionNumber(m.main_num, m.sub_num),
                               SectionTitle(section_titles, m.main_num))>>)
             \o ClausesFrom(matches, section_titles, i + 1)

\* DocumentParser._extract_subsections
ExtractSubsections(text, section_titles) ==
    ClausesFrom(SubsectionMatchesFrom(text, 1), section_titles, 1)

IsString(str) == DOMAIN str = 1..Len(str)

\* (mutant) section_title is declared str: a clause without a heading is
\* rejected
DocumentClauseAccepts_TitleRequired(clause) ==
    /\ IsString(clause.text)
    /\ IsString(clause.section_number)
    /\ clause.section_title # NoTitle

\* pydantic: text and section_number are str, section_title is str | None
DocumentClauseAccepts(clause) ==
    /\ IsString(clause.text)
    /\ IsString(clause.section_number)
    /\ clause.section_title = NoTitle \/ IsString(clause.section_title.title)

\* steps 2 and 3 of DocumentParser.parse on the text given: the clauses, or
\* the ValidationError of a DocumentClause that is built
SegmentText(text) ==
    LET found == ExtractSubsections(text, ExtractSectionTitles(text))
        valid == \A j \in DOMAIN found : DocumentClauseAccepts(found[j])
    IN  [outcome |-> IF valid THEN "ok" ELSE "ValidationError",
         value |-> IF valid THEN found ELSE <<>>,
         section_titles |-> SectionTitlesDict(ExtractSectionTitles(text)),
         text |-> text]

\* the texts are the inputs of the model
SegInit ==
    /\ clauses = NewLoader.clauses
    /\ clause_list = NewLoader.clause_list
    /\ searchable_texts = NewLoader.searchable_texts
    /\ embeddings = NewLoader.embeddings
    /\ index = NewLoader.index
    /\ everLoaded = FALSE
    /\ ret = NoCall
    /\ loadPc = "idle"
    /\ callers = NoCallers
    /\ doc_text \in Texts
    /\ parsed = NotParsed
    /\ NoPipeline

\* DocumentParser.parse, where doc_text is what rtf_to_text gave
Parse ==
    /\ parsed = NotParsed
    /\ parsed' = SegmentText(StripRtf(doc_text))
    /\ UNCHANGED <<loaderVars, everLoaded, ret, threadVars, doc_text, pipeVars>>

\* the segmentation alone (_extract_section_titles, _extract_subsections)
\* on doc_text as it is
Segment ==
    /\ parsed = NotParsed
    /\ parsed' = SegmentText(doc_text)
    /\ UNCHANGED <<loaderVars, everLoaded, ret, threadVars, doc_text, pipeVars>>

SegNext == Parse \/ Segment

SegSpec == SegInit /\ [][SegNext]_vars

-----------------------------------------------------------------------------
(* Properties of the document parser under SegSpec *)

IsParsed == parsed.outcome = "ok"

\* the spans that the clause pattern finds in the segmented text
Spans == SubsectionMatchesFrom(parsed.text, 1)

\* the number of characters of a span's content once it is trimmed and its
\* whitespace runs are single spaces
CleanLength(span) == Len(CollapseSpaces(Strip(span.content)))

\* C19: every document clause that segmentation produces has a text of at
\* least 10 characters, and the clauses produced are, in order, the spans
\* whose cleaned content has 10 characters or more: a span of 9 characters
\* is dropped, a span of 10 is kept.
C19_LengthFloor ==
    IsParsed
    => LET kept == {i \in DOMAIN Spans : CleanLength(Spans[i]) >= 10}
       IN  /\ \A j \in DOMAIN parsed.value : Len(parsed.value[j].text) >= 10
           /\ Len(parsed.value) = Cardinality(kept)
           /\ \A i \in kept :
                 LET j == Cardinality({h \in kept : h <= i})
                 IN  parsed.value[j].text = CollapseSpaces(Strip(Spans[i].content))

\* one span of 9 characters and one of 10 in the same text
C19_Witness ==
    /\ IsParsed
    /\ Len(Spans) = 2
    /\ CleanLength(Spans[1]) = 9
    /\ CleanLength(Spans[2]) = 10
    /\ Len(parsed.value) = 1
    /\ Len(parsed.value[1].text) = 10

\* digits, one dot, digits
IsAddress(str) ==
    \E k \in 2..(Len(str) - 1) :
        /\ str[k] = "."
        /\ \A i \in DOMAIN str : i # k => IsDigit(str[i])

\* C20: the section_number of every document clause that segmentation
\* produces is one or more digits, a dot, and one or more digits.
C20_AddressFormat ==
    IsParsed => \A j \in DOMAIN parsed.value :
                   IsAddress(parsed.value[j].section_number)

\* an address with a major number of two digits
C20_Witness ==
    /\ IsParsed
    /\ \E j \in DOMAIN parsed.value :
          parsed.value[j].section_number = <<"2", "1", ".", "1">>

\* the part of an address before its dot
MajorOf(section_number) ==
    SubSeq(section_number, 1,
           (CHOOSE k \in DOMAIN section_number : section_number[k] = ".") - 1)

\* the places of the text where a line starts with the number num and a dot
NumberedLineStarts(text, num) ==
    {p \in DOMAIN text :
        /\ p = 1 \/ text[p - 1] = "\n"
        /\ StartsWith(text, p, num \o <<".">>)}

\* some line of the text is "<num>. <title>", the title on that line
HasHeadingLine(text, num) ==
    \E p \in NumberedLineStarts(text, num) :
        LET a == p + Len(num) + 1
        IN  \E y \in (a + 1)..Len(text) :
               /\ ~IsSpace(text[y])
               /\ \A i \in a..(y - 1) : text[i] \in {" ", "\t"}

\* some line of the text starts with "<num>." and whitespace
HasNumberedLine(text, num) ==
    \E p \in NumberedLineStarts(text, num) :
        /\ p + Len(num) + 1 <= Len(text)
        /\ IsSpace(text[p + Len(num) + 1])

\* C21: the section_title of every document clause is what the title dict
\* holds for the clause's major number, and it is None exactly when no line
\* of the text is a top-level heading with that number.
C21_ParentHeadingResolved ==
    IsParsed
    => \A j \in DOMAIN parsed.value :
          LET c == parsed.value[j]
              major == MajorOf(c.section_number)
          IN  /\ c.section_title.present
                    <=> major \in DOMAIN parsed.section_titles
              /\ c.section_title.present
                    => /\ c.section_title.title = parsed.section_titles[major]
                       /\ HasNumberedLine(parsed.text, major)
              /\ HasHeadingLine(parsed.text, major) => c.section_title.present

\* the title of the first heading line of the text with the number num
FirstTitle(text, num) ==
    LET ms == TitleMatchesFrom(text, 1)
        same == {i \in DOMAIN ms : ms[i].num = num}
    IN  Strip(ms[CHOOSE i \in same : \A j \in same : i <= j].title)

\* C22: for a number that occurs on several top-level heading lines, the
\* title dict holds the title of the first of them.
C22_FirstOccurrenceWins ==
    IsParsed
    => \A num \in DOMAIN parsed.section_titles :
          parsed.section_titles[num] = FirstTitle(parsed.text, num)

\* a place of the text where a clause's content has to stop: a line break
\* before a heading "<n>." or "<n>.<m>", the marker IN WITNESS, or the end
IsTerminator(text, x) ==
    \/ x = Len(text) + 1
    \/ StartsWith(text, x, <<"I", "N", " ", "W", "I", "T", "N", "E", "S", "S">>)
    \/ /\ x <= Len(text) /\ text[x] = "\n"
       /\ \E s \in (x + 1)..Len(text) :
             /\ \A i \in (x + 1)..(s - 1) : IsSpace(text[i])
             /\ IsDigit(text[s])
             /\ DigitRunEnd(text, s) <= Len(text)
             /\ text[DigitRunEnd(text, s)] = "."

\* C23: the content of every span that becomes a document clause stops at
\* the first terminator after the span's address: between the address and
\* the end of the content there is no line-start heading and no IN WITNESS.
C23_StopsAtEarliestTerminator ==
    IsParsed
    => \A i \in DOMAIN Spans :
          CleanLength(Spans[i]) >= 10
          => \A x \in Spans[i].body..(Spans[i].end - 1) :
                ~IsTerminator(parsed.text, x)

\* C24: segmentation raises for no text: it returns a list of clauses,
\* which is empty for the empty text and for a text without numbering.
C24_NeverRaises ==
    /\ parsed # NotParsed => parsed.outcome = "ok"
    /\ (parsed # NotParsed
          /\ \A i \in DOMAIN parsed.text : ~IsDigit(parsed.text[i]))
         => parsed.value = <<>>

\* a text with clauses and no heading at all
C24_Witness ==
    /\ IsParsed
    /\ Len(parsed.value) = 2
    /\ DOMAIN parsed.section_titles = {}
    /\ parsed.value[1].section_title = NoTitle

-----------------------------------------------------------------------------
(* The issue analyzer (services/issue_analyzer.py) *)

\* self.client.chat.completions.create on one call: it raises, or it gives
\* an IssueAnalysis
LLMRaises == [kind |-> "raises"]

IssueAnalysis(has_issue, snippet) ==
    [kind |-> "IssueAnalysis", has_issue |-> has_issue,
     problematic_snippet |-> snippet, suggested_fix |-> <<"fix", snippet>>]

LLMResponses ==
    {LLMRaises, IssueAnalysis(FALSE, ""), IssueAnalysis(TRUE, "p"),
     IssueAnalysis(TRUE, "q")}

\* (mutant) there is no try/except around the call of the LLM
AnalyzeMatch_Propagating(match, response) ==
    IF response = LLMRaises THEN Raise("Exception") ELSE Return(response)

\* IssueAnalyzer.analyze_match: response is what the LLM does on this call
AnalyzeMatch(match, response) ==
    IF response = LLMRaises THEN Return(None) ELSE Return(response)

\* the loop of analyze_matches from the i-th match on; llm[i] is what the LLM
\* does on the i-th call
RECURSIVE AnalyzeMatchesFrom(_, _, _, _)
AnalyzeMatchesFrom(matches, llm, i, results) ==
    IF i > Len(matches) THEN Return(results)
    ELSE LET analysis == AnalyzeMatch(matches[i], llm[i])
         IN  IF analysis.outcome # "ok" THEN Raise(analysis.outcome)
             ELSE IF analysis.value # None /\ analysis.value.has_issue
             THEN AnalyzeMatchesFrom(matches, llm, i + 1,
                      Append(results, <<matches[i], analysis.value>>))
             ELSE AnalyzeMatchesFrom(matches, llm, i + 1, results)

\* IssueAnalyzer.analyze_matches
AnalyzeMatchesOn(matches, llm) == AnalyzeMatchesFrom(matches, llm, 1, <<>>)

\* the number of calls of analyze_match that a call of analyze_matches makes
RECURSIVE AnalysesRun(_, _, _)
AnalysesRun(matches, llm, i) ==
    IF i > Len(matches) THEN 0
    ELSE IF AnalyzeMatch(matches[i], llm[i]).outcome # "ok" THEN 1
    ELSE 1 + AnalysesRun(matches, llm, i + 1)

\* IssueAnalyzer.create_redline_issue
CreateRedlineIssue(match, analysis) ==
    [text_snippet |-> analysis.problematic_snippet,
     playbook_clause_reference |-> match.playbook_clause.clause,
     suggested_fix |-> analysis.suggested_fix]

\* IssueAnalyzer.analyze_and_generate_redlines
AnalyzeAndGenerateRedlinesOn(matches, llm) ==
    LET issue_pairs == AnalyzeMatchesOn(matches, llm)
    IN  IF issue_pairs.outcome # "ok" THEN Raise(issue_pairs.outcome)
        ELSE Return([j \in DOMAIN issue_pairs.value |->
                        CreateRedlineIssue(issue_pairs.value[j][1],
                                           issue_pairs.value[j][2])])

\* what the LLM does on each of n calls
LLMRuns(n) == [1..n -> LLMResponses]

\* a completed analyzer call, with the number of analyze_match calls it made
CalledAnalyzer(op, matches, llm, r) ==
    [op |-> op, args |-> [matches |-> matches, llm |-> llm],
     outcome |-> r.outcome, value |-> r.value,
     calls |-> AnalysesRun(matches, llm, 1)]

\* analyzer.analyze_matches(matches)
AnalyzeMatches(matches, llm) ==
    /\ ret' = CalledAnalyzer("analyze_matches", matches, llm,
                             AnalyzeMatchesOn(matches, llm))
    /\ UNCHANGED <<loaderVars, everLoaded, threadVars, parserVars, pipeVars>>

\* analyzer.analyze_and_generate_redlines(matches)
AnalyzeAndGenerateRedlines(matches, llm) ==
    /\ ret' = CalledAnalyzer("analyze_and_generate_redlines", matches, llm,
                             AnalyzeAndGenerateRedlinesOn(matches, llm))
    /\ UNCHANGED <<loaderVars, everLoaded, threadVars, parserVars, pipeVars>>

\* the analyzer is handed what get_best_matches gave on the loaded catalogue
AnalyzeNext ==
    \/ \E file \in ThreadFiles : Load(file, TRUE)
    \/ \E d \in DocLists, m \in MinSimilarities :
          LET found == GetBestMatchesOn(index, clause_list, d, m, TRUE)
          IN  /\ found.outcome = "ok"
              /\ \E llm \in LLMRuns(Len(found.value)) :
                    AnalyzeMatches(found.value, llm)
    \/ \E d \in DocLists, m \in MinSimilarities :
          LET found == GetBestMatchesOn(index, clause_list, d, m, TRUE)
          IN  /\ found.outcome = "ok"
              /\ \E llm \in LLMRuns(Len(found.value)) :
                    AnalyzeAndGenerateRedlines(found.value, llm)

AnalyzeSpec == Init /\ [][AnalyzeNext]_vars

-----------------------------------------------------------------------------
(* Properties of the issue analyzer under AnalyzeSpec *)

IsAnalyzerCall == ret.op \in {"analyze_matches", "analyze_and_generate_redlines"}

\* the places of the matches whose analysis succeeded and found an issue
FlaggedPlaces(matches, llm) ==
    {i \in DOMAIN matches : llm[i] # LLMRaises /\ llm[i].has_issue}

\* the j-th smallest member of a set of places
NthPlace(S, j) == CHOOSE i \in S : Cardinality({x \in S : x < i}) = j - 1

\* C26: analyze_matches and analyze_and_generate_redlines never raise because
\* an analysis failed: every match is analysed, also those after a failed
\* one; the list returned has, in input order, exactly the matches whose
\* analysis succeeded with has_issue = true (each with its analysis), and
\* analyze_and_generate_redlines gives one RedlineIssue for each of them, in
\* that order, whose playbook_clause_reference is the name of the catalogue
\* entry of the match.
C26_FailedAnalysisSkipped ==
    IsAnalyzerCall
    => LET matches == ret.args.matches
           llm == ret.args.llm
           flagged == FlaggedPlaces(matches, llm)
       IN  /\ ret.outcome = "ok"
           /\ ret.calls = Len(matches)
           /\ Len(ret.value) = Cardinality(flagged)
           /\ \A j \in DOMAIN ret.value :
                 LET i == NthPlace(flagged, j)
                 IN  IF ret.op = "analyze_matches"
                     THEN ret.value[j] = <<matches[i], llm[i]>>
                     ELSE /\ ret.value[j].playbook_clause_reference
                               = matches[i].playbook_clause.clause
                          /\ ret.value[j].text_snippet
                               = llm[i].problematic_snippet

\* the first analysis failed and the second, of another clause, found an issue
C26_Witness ==
    /\ ret.op = "analyze_and_generate_redlines"
    /\ Len(ret.args.matches) = 2
    /\ ret.args.matches[1].document_clause # ret.args.matches[2].document_clause
    /\ ret.args.llm[1] = LLMRaises
    /\ ret.args.llm[2] = IssueAnalysis(TRUE, "q")
    /\ Len(ret.value) = 1
    /\ ret.value[1].playbook_clause_reference
          = ret.args.matches[2].playbook_clause.clause

-----------------------------------------------------------------------------
(* The pipeline's stages, as evals/task.py and main.py call them *)

\* a document file, given by the clauses that parse extracts from it
Document(d) == [readable |-> TRUE, doc_clauses |-> d]
MissingDocument == [readable |-> FALSE, doc_clauses |-> <<>>]
Documents == {Document(d) : d \in DocLists} \cup {MissingDocument}

\* parser.parse(file): reading a file that is not there raises
ParseDocument(document) ==
    IF document.readable THEN Return(document.doc_clauses)
    ELSE Raise("FileNotFoundError")

\* loader = PlaybookLoader(); loader.load(file)
LoadPlaybook(file, embedOk) ==
    LET r == LoadOn(NewLoader, file, embedOk)
    IN  [outcome |-> r.outcome, value |-> r.state]

\* min_similarity=0.4
PipelineMinSimilarity == Rat(2, 5)

\* matcher.get_best_matches(doc_clauses, min_similarity=0.4)
PipelineMatches(loader, doc_clauses, embedOk) ==
    GetBestMatchesOn(loader.index, loader.clause_list, doc_clauses,
                     PipelineMinSimilarity, embedOk)

\* get_best_matches gives at most one match for each document clause
PipelineLLMRuns == LLMRuns(MaxDocs)

\* a stage that ran, and who ran it
StageRun(stage, r, by) == [stage |-> stage, ok |-> r.outcome = "ok", by |-> by]

-----------------------------------------------------------------------------
(* The evaluation task (evals/task.py): one coroutine for each case *)

Cases == 1..MaxCases

\* inputs.expected_clause_type
ExpectedClauseTypes == {"a", "b"}

\* _cached_results once it is a list
Cached(redlines) == [kind |-> "list", value |-> redlines]

\* a coroutine that the event loop has not started
Scheduled ==
    [pc |-> "scheduled", expected_clause_type |-> None, doc_clauses |-> None,
     loader |-> None, matches |-> None, result |-> None]

\* the coroutine is over: it returned or it raised
Finished(case, how, result) ==
    [Scheduled EXCEPT !.pc = how,
                      !.expected_clause_type = case.expected_clause_type,
                      !.result = result]

\* the body of redline_document has no await: a coroutine that has started
\* keeps the event loop until it returns or raises
YieldsAt(pc) == FALSE

\* the event loop can run coroutine c: no other coroutine is inside its body,
\* unless it is suspended there
CanRun(c) ==
    \A o \in Cases \ {c} :
       \/ cases[o].pc \in {"scheduled", "returned", "ValueError", "raised"}
       \/ YieldsAt(cases[o].pc)

\* (mutant) if not _cached_results:
CacheMiss_Falsy(cache) == cache = None \/ cache.value = <<>>

\* if _cached_results is None:
CacheMiss(cache) == cache = None

EvalInit ==
    /\ clauses = NewLoader.clauses
    /\ clause_list = NewLoader.clause_list
    /\ searchable_texts = NewLoader.searchable_texts
    /\ embeddings = NewLoader.embeddings
    /\ index = NewLoader.index
    /\ everLoaded = FALSE
    /\ ret = NoCall
    /\ loadPc = "idle"
    /\ callers = NoCallers
    /\ doc_text = <<>>
    /\ parsed = NotParsed
    /\ cached_results = None
    /\ cases = [c \in Cases |-> Scheduled]
    /\ trace = <<>>
    /\ mainPc = "none"
    /\ locals = NoLocals
    /\ output_file = None
    /\ exit_code = None

evalFrame == <<loaderVars, everLoaded, ret, threadVars, parserVars, mainPc,
               locals, output_file, exit_code>>

\* the coroutine starts and tests the cache
EvalStart(c, expected_clause_type) ==
    /\ cases[c].pc = "scheduled"
    /\ CanRun(c)
    /\ cases' = [cases EXCEPT ![c] =
                    [Scheduled EXCEPT
                        !.pc = IF CacheMiss(cached_results) THEN "parse"
                               ELSE "filter",
                        !.expected_clause_type = expected_clause_type]]
    /\ UNCHANGED <<cached_results, trace, evalFrame>>

\* doc_clauses = parser.parse(BAD_DOCUMENT_FILE)
EvalParse(c, document) ==
    /\ cases[c].pc = "parse"
    /\ CanRun(c)
    /\ LET r == ParseDocument(document)
       IN  /\ trace' = Append(trace, StageRun("parse", r, c))
           /\ cases' = [cases EXCEPT ![c] =
                           IF r.outcome = "ok"
                           THEN [@ EXCEPT !.pc = "load", !.doc_clauses = r.value]
                           ELSE Finished(@, "raised", r.outcome)]
    /\ UNCHANGED <<cached_results, evalFrame>>

\* loader = PlaybookLoader(); loader.load(PLAYBOOK_FILE)
EvalLoad(c, file, embedOk) ==
    /\ cases[c].pc = "load"
    /\ CanRun(c)
    /\ LET r == LoadPlaybook(file, embedOk)
       IN  /\ trace' = Append(trace, StageRun("load", r, c))
           /\ cases' = [cases EXCEPT ![c] =
                           IF r.outcome = "ok"
                           THEN [@ EXCEPT !.pc = "match", !.loader = r.value]
                           ELSE Finished(@, "raised", r.outcome)]
    /\ UNCHANGED <<cached_results, evalFrame>>

\* matches = matcher.get_best_matches(doc_clauses, min_similarity=0.4)
EvalMatch(c, embedOk) ==
    /\ cases[c].pc = "match"
    /\ CanRun(c)
    /\ LET r == PipelineMatches(cases[c].loader, cases[c].doc_clauses, embedOk)
       IN  /\ trace' = Append(trace, StageRun("match", r, c))
           /\ cases' = [cases EXCEPT ![c] =
                           IF r.outcome = "ok"
                           THEN [@ EXCEPT !.pc = "analyze", !.matches = r.value,
                                          !.loader = None, !.doc_clauses = None]
                           ELSE Finished(@, "raised", r.outcome)]
    /\ UNCHANGED <<cached_results, evalFrame>>

\* redlines = analyzer.analyze_and_generate_redlines(matches);
\* _cached_results = redlines
EvalAnalyze(c, llm) ==
    /\ cases[c].pc = "analyze"
    /\ CanRun(c)
    /\ LET r == AnalyzeAndGenerateRedlinesOn(cases[c].matches, llm)
       IN  /\ trace' = Append(trace, StageRun("analyze", r, c))
           /\ cached_results' = IF r.outcome = "ok" THEN Cached(r.value)
                                ELSE cached_results
           /\ cases' = [cases EXCEPT ![c] =
                           IF r.outcome = "ok"
                           THEN [@ EXCEPT !.pc = "filter", !.matches = None]
                           ELSE Finished(@, "raised", r.outcome)]
    /\ UNCHANGED evalFrame

\* the redlines of the cache that have the expected clause type
MatchingIssues(redlines, expected_clause_type) ==
    SelectSeq(redlines,
              LAMBDA r : r.playbook_clause_reference = expected_clause_type)

\* matching_issues = [...]; raise ValueError or return matching_issues[0]
EvalFilter(c) ==
    /\ cases[c].pc = "filter"
    /\ CanRun(c)
    /\ LET matching_issues == MatchingIssues(cached_results.value,
                                             cases[c].expected_clause_type)
       IN  cases' = [cases EXCEPT ![c] =
                        IF matching_issues = <<>>
                        THEN Finished(@, "ValueError", None)
                        ELSE Finished(@, "returned", matching_issues[1])]
    /\ UNCHANGED <<cached_results, trace, evalFrame>>

EvalNext ==
    \/ \E c \in Cases, e \in ExpectedClauseTypes : EvalStart(c, e)
    \/ \E c \in Cases, document \in Documents : EvalParse(c, document)
    \/ \E c \in Cases, file \in ThreadFiles, embedOk \in BOOLEAN :
          EvalLoad(c, file, embedOk)
    \/ \E c \in Cases, embedOk \in BOOLEAN : EvalMatch(c, embedOk)
    \/ \E c \in Cases, llm \in PipelineLLMRuns : EvalAnalyze(c, llm)
    \/ \E c \in Cases : EvalFilter(c)

EvalSpec == EvalInit /\ [][EvalNext]_vars

-----------------------------------------------------------------------------
(* Properties of the evaluation task under EvalSpec *)

\* the pipeline runs that reached their end
Completions ==
    {i \in DOMAIN trace : trace[i].stage = "analyze" /\ trace[i].ok}

\* the coroutines that raised ValueError
RaisedValueError(cs) == {c \in Cases : cs[c].pc = "ValueError"}

\* C25: whatever the order in which the event loop runs the coroutines of
\* redline_document, at most one run of the pipeline reaches its end, and
\* the cache is set exactly when one has; from the moment the cache is set
\* no step of any coroutine runs a stage or changes the cache; and when a
\* coroutine raises ValueError the cache stays as the pipeline set it (a
\* coroutine whose own run has just set the cache included).
C25_PipelineRunsOnce ==
    [][/\ Cardinality(Completions') <= 1
       /\ (cached_results' # None) <=> (Completions' # {})
       /\ cached_results # None
             => /\ trace' = trace
                /\ cached_results' = cached_results
       /\ RaisedValueError(cases') # RaisedValueError(cases)
             => /\ cached_results' = cached_results
                /\ cached_results' # None]_vars

\* a first coroutine ran the pipeline and returned, then a second one raised
\* ValueError and a third one returned, both from the cache
C25_Witness ==
    /\ cached_results # None
    /\ Len(trace) = 4
    /\ \E a, b, c \in Cases :
          /\ a # b /\ b # c /\ a # c
          /\ trace[1].by = a
          /\ cases[a].pc = "returned"
          /\ cases[b].pc = "ValueError"
          /\ cases[c].pc = "returned"

-----------------------------------------------------------------------------
(* The command line (main.py): main(), statement by statement *)

\* a str
Str(v) == [kind |-> "str", value |-> v]

\* os.getenv("OPENAI_API_KEY"): None when the variable is not set
ApiKeys == {None, Str(""), Str("sk")}

\* if not api_key:
KeyMissing(api_key) == api_key = None \/ api_key.value = ""

\* the value that main() returns
ExitCode(n) == [kind |-> "int", value |-> n]

\* (mutant) the handlers print the error and fall through to return 0
HandlerExit_Swallowing(err) == ExitCode(0)

\* except FileNotFoundError / except Exception: return 1
HandlerExit(err) == ExitCode(1)

\* json.dump([r.model_dump() for r in redlines], f)
Written(redlines) == [kind |-> "json", value |-> redlines]

\* --playbook: a playbook file, or a path with no readable file
MainPlaybooks == ThreadFiles \cup {Unreadable}

MainInit ==
    /\ clauses = NewLoader.clauses
    /\ clause_list = NewLoader.clause_list
    /\ searchable_texts = NewLoader.searchable_texts
    /\ embeddings = NewLoader.embeddings
    /\ index = NewLoader.index
    /\ everLoaded = FALSE
    /\ ret = NoCall
    /\ loadPc = "idle"
    /\ callers = NoCallers
    /\ doc_text = <<>>
    /\ parsed = NotParsed
    /\ cached_results = None
    /\ cases = <<>>
    /\ trace = <<>>
    /\ mainPc = "start"
    /\ locals = NoLocals
    /\ output_file = None
    /\ exit_code = None

mainFrame == <<threadVars, parserVars, cached_results, cases>>

\* a stage raised: the handler of the try gives the exit code
MainRaised(err) ==
    /\ mainPc' = "done"
    /\ exit_code' = HandlerExit(err)

\* args = parse_arguments(); api_key = os.getenv(..); if not api_key: return 1
MainCheckKey(api_key, document, playbook, evaluate) ==
    /\ mainPc = "start"
    /\ locals' = [locals EXCEPT !.api_key = api_key, !.document = document,
                                !.playbook = playbook, !.evaluate = evaluate]
    /\ IF KeyMissing(api_key)
       THEN mainPc' = "done" /\ exit_code' = ExitCode(1)
       ELSE mainPc' = "parse" /\ UNCHANGED exit_code
    /\ UNCHANGED <<loaderVars, everLoaded, ret, trace, output_file, mainFrame>>

\* Step 1: doc_clauses = parser.parse(args.document)
MainParse ==
    /\ mainPc = "parse"
    /\ LET r == ParseDocument(locals.document)
       IN  /\ trace' = Append(trace, StageRun("parse", r, "main"))
           /\ IF r.outcome = "ok"
              THEN /\ mainPc' = "load"
                   /\ locals' = [locals EXCEPT !.doc_clauses = r.value]
                   /\ UNCHANGED exit_code
              ELSE MainRaised(r.outcome) /\ UNCHANGED locals
    /\ UNCHANGED <<loaderVars, everLoaded, ret, output_file, mainFrame>>

\* Step 2: loader = PlaybookLoader(); loader.load(args.playbook)
MainLoad(embedOk) ==
    /\ mainPc = "load"
    /\ LET r == LoadOn(LoaderState, locals.playbook, embedOk)
       IN  /\ Install(r.state)
           /\ everLoaded' = (everLoaded \/ r.outcome = "ok")
           /\ ret' = Called("load",
                        [duplicate_names |->
                            HasDuplicateNames(locals.playbook.items)],
                        Raise(r.outcome))
           /\ trace' = Append(trace, StageRun("load", r, "main"))
           /\ IF r.outcome = "ok"
              THEN mainPc' = "match" /\ UNCHANGED exit_code
              ELSE MainRaised(r.outcome)
    /\ UNCHANGED <<locals, output_file, mainFrame>>

\* Step 3: matches = matcher.get_best_matches(doc_clauses, min_similarity=0.4)
MainMatch(embedOk) ==
    /\ mainPc = "match"
    /\ LET r == PipelineMatches(LoaderState, locals.doc_clauses, embedOk)
       IN  /\ trace' = Append(trace, StageRun("match", r, "main"))
           /\ IF r.outcome = "ok"
              THEN /\ mainPc' = "analyze"
                   /\ locals' = [locals EXCEPT !.matches = r.value]
                   /\ UNCHANGED exit_code
              ELSE MainRaised(r.outcome) /\ UNCHANGED locals
    /\ UNCHANGED <<loaderVars, everLoaded, ret, output_file, mainFrame>>

\* Step 4: redlines = analyzer.analyze_and_generate_redlines(matches)
MainAnalyze(llm) ==
    /\ mainPc = "analyze"
    /\ LET r == AnalyzeAndGenerateRedlinesOn(locals.matches, llm)
       IN  /\ trace' = Append(trace, StageRun("analyze", r, "main"))
           /\ IF r.outcome = "ok"
              THEN /\ mainPc' = "save"
                   /\ locals' = [locals EXCEPT !.redlines = r.value]
                   /\ UNCHANGED exit_code
              ELSE MainRaised(r.outcome) /\ UNCHANGED locals
    /\ UNCHANGED <<loaderVars, everLoaded, ret, output_file, mainFrame>>

\* Step 5: mkdir, open(args.output, 'w'), json.dump; writable is whether the
\* directory and the file can be made
MainSave(writable) ==
    /\ mainPc = "save"
    /\ LET r == IF writable THEN Return(Written(locals.redlines))
                ELSE Raise("OSError")
       IN  /\ trace' = Append(trace, StageRun("save", r, "main"))
           /\ IF r.outcome = "ok"
              THEN /\ mainPc' = "summary"
                   /\ output_file' = r.value
                   /\ UNCHANGED exit_code
              ELSE MainRaised(r.outcome) /\ UNCHANGED output_file
    /\ UNCHANGED <<loaderVars, everLoaded, ret, locals, mainFrame>>

\* the summary, the evaluation when --evaluate is given, return 0;
\* evaluatorOk is whether the evaluation ran without an exception
MainSummary(evaluatorOk) ==
    /\ mainPc = "summary"
    /\ mainPc' = "done"
    /\ exit_code' = IF locals.evaluate /\ ~evaluatorOk
                    THEN HandlerExit("FileNotFoundError")
                    ELSE ExitCode(0)
    /\ UNCHANGED <<loaderVars, everLoaded, ret, locals, trace, output_file,
                   mainFrame>>

MainNext ==
    \/ \E api_key \in ApiKeys, document \in Documents,
          playbook \in MainPlaybooks, evaluate \in BOOLEAN :
          MainCheckKey(api_key, document, playbook, evaluate)
    \/ MainParse
    \/ \E embedOk \in BOOLEAN : MainLoad(embedOk)
    \/ \E embedOk \in BOOLEAN : MainMatch(embedOk)
    \/ \E llm \in PipelineLLMRuns : MainAnalyze(llm)
    \/ \E writable \in BOOLEAN : MainSave(writable)
    \/ \E evaluatorOk \in BOOLEAN : MainSummary(evaluatorOk)

MainSpec == MainInit /\ [][MainNext]_vars

-----------------------------------------------------------------------------
(* Properties of main() under MainSpec *)

\* the stages in the order of the claim
StageOrder == <<"parse", "load", "match", "analyze", "save">>

\* the stages ran in order, each after the one before it ended normally
InStageOrder(t) ==
    /\ Len(t) <= Len(StageOrder)
    /\ \A i \in DOMAIN t :
          /\ t[i].stage = StageOrder[i]
          /\ i < Len(t) => t[i].ok

\* some stage raised
StageFailed(t) == \E i \in DOMAIN t : ~t[i].ok

\* C30: main runs parse, load, match, analyze, save in this order, each stage
\* only after the one before it ended without an exception; with no
\* OPENAI_API_KEY (not set, or empty) it returns 1 and no stage has run; the
\* output file is written only when the four earlier stages and the save
\* ended without an exception; when a stage raised, main is over with exit
\* code 1; and exit code 0 is returned only with the output file written.
C30_StagesInOrder ==
    /\ InStageOrder(trace)
    /\ (mainPc # "start" /\ KeyMissing(locals.api_key))
          => /\ mainPc = "done"
             /\ exit_code = ExitCode(1)
             /\ trace = <<>>
             /\ output_file = None
    /\ output_file # None
          => /\ Len(trace) = Len(StageOrder)
             /\ ~StageFailed(trace)
    /\ StageFailed(trace)
          => /\ mainPc = "done"
             /\ exit_code = ExitCode(1)
    /\ exit_code = ExitCode(0) => output_file # None
    /\ (mainPc = "done") <=> (exit_code # None)

\* a run that wrote two redlines and returned 0
C30_Witness ==
    /\ mainPc = "done"
    /\ exit_code = ExitCode(0)
    /\ Len(trace) = 5
    /\ output_file # None
    /\ Len(output_file.value) = 2

\* a run whose third stage raised
C30_WitnessFailed ==
    /\ mainPc = "done"
    /\ exit_code = ExitCode(1)
    /\ Len(trace) = 3
    /\ ~trace[3].ok
    /\ output_file = None

=============================================================================
